---- MODULE Spec2Model ----
(***************************************************************************)
(* A model of viewtext: the layout engine (engine.py), the formatter       *)
(* registry (formatters.py), the chain parser and the input resolver       *)
(* (registry_builder.py) and the configuration loader (loader.py).         *)
(*                                                                         *)
(* Python values are tagged records [t, n, s]; Python strings are          *)
(* sequences of one-character strings, so that str(), upper(), slicing and *)
(* concatenation are computed and not assumed.  A call that can raise      *)
(* returns a record [exc, v]: exc = "" for a normal return, otherwise the  *)
(* name of the exception class that leaves the call.                       *)
(***************************************************************************)
EXTENDS Integers, Sequences, FiniteSets, TLC

VARIABLES
    engine,     \* the LayoutEngine and the state of its loader
    call        \* the last call made on the library, with its inputs and result

vars == <<engine, call>>

(***************************************************************************)
(* Bounds of the model.                                                    *)
(***************************************************************************)
MaxSlots == 2       \* slots in a layout of the structural family
MaxIndex == 2       \* slot indices range over -MaxIndex..MaxIndex
MaxTail  == 3       \* free characters appended to a chain prefix

(***************************************************************************)
(* Python values.                                                          *)
(***************************************************************************)
NoneV      == [t |-> "none",   n |-> 0, s |-> <<>>]
IntV(i)    == [t |-> "int",    n |-> i, s |-> <<>>]
StrV(q)    == [t |-> "str",    n |-> 0, s |-> q]
ObjV(id)   == [t |-> "obj",    n |-> id, s |-> <<>>]
BoolV(b)   == [t |-> "bool",   n |-> IF b THEN 1 ELSE 0, s |-> <<>>]
MethodV(id, q) == [t |-> "method", n |-> id, s |-> q]

Ret(v)   == [exc |-> "", v |-> v]
Raise(e) == [exc |-> e, v |-> NoneV]

\* bool(value) as used by `if name:` and `if not params:`
Truthy(v) ==
    CASE v.t = "none" -> FALSE
      [] v.t \in {"int", "float", "bool"} -> v.n # 0
      [] v.t = "str"  -> v.s # <<>>
      [] OTHER        -> TRUE

\* dict.get(key, default) on a dict modelled as a function
DictGet(d, k, default) == IF k \in DOMAIN d THEN d[k] ELSE default

(***************************************************************************)
(* Strings.                                                                *)
(***************************************************************************)
Digits  == <<"0", "1", "2", "3", "4", "5", "6", "7", "8", "9">>
LowerAZ == <<"a", "b", "c", "d", "e", "f", "g", "h", "i", "j", "k", "l", "m",
             "n", "o", "p", "q", "r", "s", "t", "u", "v", "w", "x", "y", "z">>
UpperAZ == <<"A", "B", "C", "D", "E", "F", "G", "H", "I", "J", "K", "L", "M",
             "N", "O", "P", "Q", "R", "S", "T", "U", "V", "W", "X", "Y", "Z">>

Range(q) == {q[i] : i \in DOMAIN q}
IsDigit(c) == c \in Range(Digits)
DigitVal(c) == (CHOOSE i \in DOMAIN Digits : Digits[i] = c) - 1

RECURSIVE NatToStr(_)
NatToStr(n) == IF n < 10 THEN <<Digits[n + 1]>>
               ELSE NatToStr(n \div 10) \o <<Digits[(n % 10) + 1]>>

IntToStr(n) == IF n < 0 THEN <<"-">> \o NatToStr(-n) ELSE NatToStr(n)

UpperChar(c) == IF c \in Range(LowerAZ)
                THEN UpperAZ[CHOOSE i \in DOMAIN LowerAZ : LowerAZ[i] = c]
                ELSE c
LowerChar(c) == IF c \in Range(UpperAZ)
                THEN LowerAZ[CHOOSE i \in DOMAIN UpperAZ : UpperAZ[i] = c]
                ELSE c

StrUpper(q) == [i \in DOMAIN q |-> UpperChar(q[i])]
StrLower(q) == [i \in DOMAIN q |-> LowerChar(q[i])]

RECURSIVE StrStrip(_)
StrStrip(q) ==
    IF q = <<>> THEN q
    ELSE IF Head(q) = " " THEN StrStrip(Tail(q))
    ELSE IF q[Len(q)] = " " THEN StrStrip(SubSeq(q, 1, Len(q) - 1))
    ELSE q

RECURSIVE Repeat(_, _)
Repeat(c, k) == IF k <= 0 THEN <<>> ELSE <<c>> \o Repeat(c, k - 1)

RECURSIVE DigitsToNat(_)
DigitsToNat(q) == IF q = <<>> THEN 0
                  ELSE 10 * DigitsToNat(SubSeq(q, 1, Len(q) - 1)) + DigitVal(q[Len(q)])

AllDigits(q) == q # <<>> /\ \A i \in DOMAIN q : IsDigit(q[i])

\* the text int(str) accepts: optional blanks, an optional sign, digits
IsIntText(q) ==
    LET b == StrStrip(q)
        d == IF b # <<>> /\ Head(b) \in {"-", "+"} THEN Tail(b) ELSE b
    IN  AllDigits(d)

IntOfText(q) ==
    LET b == StrStrip(q)
    IN  IF Head(b) = "-" THEN 0 - DigitsToNat(Tail(b))
        ELSE IF Head(b) = "+" THEN DigitsToNat(Tail(b))
        ELSE DigitsToNat(b)

(***************************************************************************)
(* Numbers.  A float is held in thousandths (FloatV(1500) is 1.5); the     *)
(* floats of the model are those a binary float holds exactly at that      *)
(* scale, so that rounding to fewer digits is the round-half-even of the   *)
(* f-string format.                                                        *)
(***************************************************************************)
Scale == 10 * 10 * 10
FloatV(m) == [t |-> "float", n |-> m, s |-> <<>>]

\* the text float(str) accepts, within the characters of the model:
\* optional blanks, an optional sign, digits with at most one decimal point
IsFloatText(q) ==
    LET b == StrStrip(q)
        d == IF b # <<>> /\ Head(b) \in {"-", "+"} THEN Tail(b) ELSE b
        dots == {i \in DOMAIN d : d[i] = "."}
    IN  /\ Cardinality(dots) <= 1
        /\ \A i \in DOMAIN d : IsDigit(d[i]) \/ d[i] = "."
        /\ \E i \in DOMAIN d : IsDigit(d[i])

\* float(text) in thousandths, digits past the third dropped
MilliOfText(q) ==
    LET b == StrStrip(q)
        neg == b # <<>> /\ Head(b) = "-"
        d == IF b # <<>> /\ Head(b) \in {"-", "+"} THEN Tail(b) ELSE b
        dot == IF \E i \in DOMAIN d : d[i] = "."
               THEN CHOOSE i \in DOMAIN d : d[i] = "." ELSE Len(d) + 1
        whole == SubSeq(d, 1, dot - 1)
        frac == SubSeq(SubSeq(d, dot + 1, Len(d)) \o <<"0", "0", "0">>, 1, 3)
        m == DigitsToNat(whole) * Scale + DigitsToNat(frac)
    IN  IF neg THEN 0 - m ELSE m

\* float(value): the number in thousandths, or the exception raised
ToFloat(v) ==
    CASE v.t \in {"int", "bool"} -> [exc |-> "", m |-> v.n * Scale]
      [] v.t = "float" -> [exc |-> "", m |-> v.n]
      [] v.t = "str"   -> IF IsFloatText(v.s)
                          THEN [exc |-> "", m |-> MilliOfText(v.s)]
                          ELSE [exc |-> "ValueError", m |-> 0]
      [] OTHER         -> [exc |-> "TypeError", m |-> 0]

\* int(value): the integer (truncated toward zero), or the exception raised
ToInt(v) ==
    CASE v.t \in {"int", "bool"} -> [exc |-> "", i |-> v.n]
      [] v.t = "float" -> [exc |-> "", i |-> IF v.n < 0 THEN 0 - ((0 - v.n) \div Scale)
                                              ELSE v.n \div Scale]
      [] v.t = "str"   -> IF IsIntText(v.s)
                          THEN [exc |-> "", i |-> IntOfText(v.s)]
                          ELSE [exc |-> "ValueError", i |-> 0]
      [] OTHER         -> [exc |-> "TypeError", i |-> 0]

RECURSIVE GroupThousands(_)
GroupThousands(q) ==
    IF Len(q) <= 3 THEN q
    ELSE GroupThousands(SubSeq(q, 1, Len(q) - 3)) \o <<",">> \o SubSeq(q, Len(q) - 2, Len(q))

RECURSIVE Pow10(_)
Pow10(k) == IF k <= 0 THEN 1 ELSE 10 * Pow10(k - 1)

PadLeft(q, width) == Repeat("0", width - Len(q)) \o q

\* f"{num:,.{decimals}f}" (grouped) or f"{num:.{decimals}f}" for num = m/1000
FormatFixed(m, decimals, grouped) ==
    LET a == IF m < 0 THEN 0 - m ELSE m
        p == Pow10(3 - decimals)
        q == a \div p
        r == a % p
        up == decimals < 3 /\ (2 * r > p \/ (2 * r = p /\ q % 2 = 1))
        scaled == IF decimals >= 3 THEN a * Pow10(decimals - 3)
                  ELSE IF up THEN q + 1 ELSE q
        unit == Pow10(decimals)
        whole == NatToStr(scaled \div unit)
        frac == IF decimals = 0 THEN <<>>
                ELSE <<".">> \o PadLeft(NatToStr(scaled % unit), decimals)
    IN  (IF m < 0 THEN <<"-">> ELSE <<>>)
        \o (IF grouped THEN GroupThousands(whole) ELSE whole) \o frac

RECURSIVE StripZeros(_)
StripZeros(q) == IF Len(q) > 1 /\ q[Len(q)] = "0"
                 THEN StripZeros(SubSeq(q, 1, Len(q) - 1)) ELSE q

\* str(value); a float prints its shortest decimal form ("1.5", "2.0")
PyStr(v) ==
    CASE v.t = "none"   -> <<"N", "o", "n", "e">>
      [] v.t = "int"    -> IntToStr(v.n)
      [] v.t = "bool"   -> IF v.n = 1 THEN <<"T", "r", "u", "e">>
                           ELSE <<"F", "a", "l", "s", "e">>
      [] v.t = "float"  -> LET a == IF v.n < 0 THEN 0 - v.n ELSE v.n
                           IN  (IF v.n < 0 THEN <<"-">> ELSE <<>>)
                               \o NatToStr(a \div Scale) \o <<".">>
                               \o StripZeros(PadLeft(NatToStr(a % Scale), 3))
      [] v.t = "str"    -> v.s
      [] v.t = "obj"    -> <<"<", "o", "b", "j", ">">>
      [] v.t = "method" -> <<"<", "m", "e", "t", "h", "o", "d", ">">>

(***************************************************************************)
(* The formatter registry (formatters.py).  A formatter takes the value    *)
(* and its keyword parameters, a dict from parameter name to value.        *)
(***************************************************************************)
EmptyStr == StrV(<<>>)

S_text           == <<"t", "e", "x", "t">>
S_text_uppercase == <<"t", "e", "x", "t", "_", "u", "p", "p", "e", "r", "c", "a", "s", "e">>
S_price          == <<"p", "r", "i", "c", "e">>
S_number         == <<"n", "u", "m", "b", "e", "r">>
S_datetime       == <<"d", "a", "t", "e", "t", "i", "m", "e">>
S_relative_time  == <<"r", "e", "l", "a", "t", "i", "v", "e", "_", "t", "i", "m", "e">>
S_template       == <<"t", "e", "m", "p", "l", "a", "t", "e">>
S_short          == <<"s", "h", "o", "r", "t">>
S_suffix         == <<"s", "u", "f", "f", "i", "x">>
S_prefix         == <<"p", "r", "e", "f", "i", "x">>
S_ago            == <<" ", "a", "g", "o">>

\* the names _register_builtin_formatters registers
BuiltinFormatters ==
    {S_text, S_text_uppercase, S_price, S_number, S_datetime, S_relative_time}

\* FormatterRegistry.get: the formatter registered under the name, or ValueError
FormatterRegistryGet(name) ==
    IF name.t = "str" /\ name.s \in BuiltinFormatters
    THEN [exc |-> "", fn |-> name.s]
    ELSE [exc |-> "ValueError", fn |-> <<>>]

_format_text(value, kw) ==
    LET prefix == DictGet(kw, "prefix", EmptyStr)
        suffix == DictGet(kw, "suffix", EmptyStr)
    IN  Ret(StrV(PyStr(prefix) \o PyStr(value) \o PyStr(suffix)))

_format_text_uppercase(value, kw) == Ret(StrV(StrUpper(PyStr(value))))

\* the f-string f"{num:,.{decimals}f}": the precision must print as digits
FormatNumberSpec(m, decimals, thousands_sep) ==
    IF ~AllDigits(PyStr(decimals)) \/ decimals.t \notin {"int", "str"}
    THEN Raise("ValueError")
    ELSE Ret(StrV(FormatFixed(m, DigitsToNat(PyStr(decimals)), Truthy(thousands_sep))))

_format_price(value, kw) ==
    LET symbol == DictGet(kw, "symbol", EmptyStr)
        decimals == DictGet(kw, "decimals", IntV(2))
        thousands_sep == DictGet(kw, "thousands_sep", EmptyStr)
        symbol_position == DictGet(kw, "symbol_position", StrV(S_prefix))
        WithSymbol(formatted) ==
            IF formatted.exc # "" THEN formatted
            ELSE IF Truthy(symbol)
                 THEN IF symbol_position = StrV(S_suffix)
                      THEN Ret(StrV(formatted.v.s \o PyStr(symbol)))
                      ELSE Ret(StrV(PyStr(symbol) \o formatted.v.s))
            ELSE formatted
        Format(num) ==
            IF num.exc # "" THEN Ret(StrV(PyStr(value)))
            ELSE WithSymbol(FormatNumberSpec(num.m, decimals, thousands_sep))
    IN  IF value.t = "none" THEN Ret(EmptyStr) ELSE Format(ToFloat(value))

\* a number formatter that wraps the raw value of a failed coercion too
FormatNumberWrapsRaw(value, kw) ==
    LET prefix == DictGet(kw, "prefix", EmptyStr)
        suffix == DictGet(kw, "suffix", EmptyStr)
        decimals == DictGet(kw, "decimals", IntV(0))
        thousands_sep == DictGet(kw, "thousands_sep", EmptyStr)
        Wrap(formatted) ==
            IF formatted.exc # "" THEN formatted
            ELSE Ret(StrV(PyStr(prefix) \o formatted.v.s \o PyStr(suffix)))
        Format(num) ==
            IF num.exc # "" THEN Wrap(Ret(StrV(PyStr(value))))
            ELSE Wrap(FormatNumberSpec(num.m, decimals, thousands_sep))
    IN  IF value.t = "none" THEN Ret(EmptyStr) ELSE Format(ToFloat(value))

_format_number(value, kw) ==
    LET prefix == DictGet(kw, "prefix", EmptyStr)
        suffix == DictGet(kw, "suffix", EmptyStr)
        decimals == DictGet(kw, "decimals", IntV(0))
        thousands_sep == DictGet(kw, "thousands_sep", EmptyStr)
        Wrap(formatted) ==
            IF formatted.exc # "" THEN formatted
            ELSE Ret(StrV(PyStr(prefix) \o formatted.v.s \o PyStr(suffix)))
        Format(num) ==
            IF num.exc # "" THEN Ret(StrV(PyStr(value)))
            ELSE Wrap(FormatNumberSpec(num.m, decimals, thousands_sep))
    IN  IF value.t = "none" THEN Ret(EmptyStr) ELSE Format(ToFloat(value))

\* strftime of a Unix timestamp depends on the host's time zone: the model
\* keeps the timestamp, marked, as the rendering of a numeric value
_format_datetime(value, kw) ==
    CASE value.t = "none"             -> Ret(EmptyStr)
      [] value.t \in {"int", "float", "bool"} -> Ret(StrV(<<"@">> \o IntToStr(ToInt(value).i)))
      [] value.t = "str"              -> Ret(value)
      [] OTHER                        -> Ret(StrV(PyStr(value)))

\* a unit that is the short one whatever the format
RelativeUnitShort(short, long, format_type) == short

RelativeUnit(short, long, format_type) ==
    IF format_type = StrV(S_short) THEN short ELSE <<" ">> \o long

_format_relative_time(value, kw) ==
    LET format_type == DictGet(kw, "format", StrV(S_short))
        Ago(count, short, long) ==
            Ret(StrV(IntToStr(count) \o RelativeUnit(short, long, format_type) \o S_ago))
        Bucket(seconds) ==
            IF seconds < 60
            THEN Ago(seconds, <<"s">>, <<"s", "e", "c", "o", "n", "d", "s">>)
            ELSE IF seconds < 3600
            THEN Ago(seconds \div 60, <<"m">>, <<"m", "i", "n", "u", "t", "e", "s">>)
            ELSE IF seconds < 86400
            THEN Ago(seconds \div 3600, <<"h">>, <<"h", "o", "u", "r", "s">>)
            ELSE Ago(seconds \div 86400, <<"d">>, <<"d", "a", "y", "s">>)
        Format(sec) == IF sec.exc # "" THEN Ret(StrV(PyStr(value))) ELSE Bucket(sec.i)
    IN  IF value.t = "none" THEN Ret(EmptyStr) ELSE Format(ToInt(value))

\* formatter(value, **formatter_params) for the registered function fn
CallFormatter(fn, value, kw) ==
    CASE fn = S_text           -> _format_text(value, kw)
      [] fn = S_text_uppercase -> _format_text_uppercase(value, kw)
      [] fn = S_price          -> _format_price(value, kw)
      [] fn = S_number         -> _format_number(value, kw)
      [] fn = S_datetime       -> _format_datetime(value, kw)
      [] fn = S_relative_time  -> _format_relative_time(value, kw)

(***************************************************************************)
(* The chain parser (registry_builder.py, MethodCallParser).               *)
(***************************************************************************)
\* \w of the regular expressions
IsWord(c) == c \in Range(LowerAZ) \/ c \in Range(UpperAZ) \/ IsDigit(c) \/ c = "_"

\* length of the longest prefix of word characters
RECURSIVE WordPrefixLen(_)
WordPrefixLen(q) == IF q # <<>> /\ IsWord(Head(q)) THEN 1 + WordPrefixLen(Tail(q)) ELSE 0

Contains(q, c) == \E i \in DOMAIN q : q[i] = c
IndexOf(q, c) == CHOOSE i \in DOMAIN q : q[i] = c /\ \A j \in 1..(i - 1) : q[j] # c
Min(S) == CHOOSE x \in S : \A y \in S : x <= y
Max(S) == CHOOSE x \in S : \A y \in S : x >= y

\* str.split(",")
RECURSIVE SplitComma(_)
SplitComma(q) ==
    IF ~Contains(q, ",") THEN <<q>>
    ELSE <<SubSeq(q, 1, IndexOf(q, ",") - 1)>>
         \o SplitComma(SubSeq(q, IndexOf(q, ",") + 1, Len(q)))

RemoveChar(q, c) == SelectSeq(q, LAMBDA x : x # c)

S_true  == <<"t", "r", "u", "e">>
S_false == <<"f", "a", "l", "s", "e">>
S_none  == <<"n", "o", "n", "e">>

\* one argument token of _parse_args, already stripped: the literal, or the
\* ValueError of int()/float() on a token that only looks numeric
ParseArg(arg) ==
    IF arg # <<>> /\ ((Head(arg) = "'" /\ arg[Len(arg)] = "'")
                      \/ (Head(arg) = "\"" /\ arg[Len(arg)] = "\""))
    THEN Ret(StrV(SubSeq(arg, 2, Len(arg) - 1)))
    ELSE IF AllDigits(RemoveChar(RemoveChar(arg, "-"), "."))
    THEN IF Contains(arg, ".")
         THEN IF IsFloatText(arg)
              THEN Ret(FloatV(MilliOfText(arg))) ELSE Raise("ValueError")
         ELSE IF IsIntText(arg) THEN Ret(IntV(IntOfText(arg))) ELSE Raise("ValueError")
    ELSE IF StrLower(arg) = S_true THEN Ret(BoolV(TRUE))
    ELSE IF StrLower(arg) = S_false THEN Ret(BoolV(FALSE))
    ELSE IF StrLower(arg) = S_none THEN Ret(NoneV)
    ELSE Ret(StrV(arg))

\* the loop of _parse_args over the split tokens
RECURSIVE ParseArgList(_, _)
ParseArgList(tokens, args) ==
    IF tokens = <<>> THEN [exc |-> "", args |-> args]
    ELSE LET a == ParseArg(StrStrip(Head(tokens)))
         IN  IF a.exc # "" THEN [exc |-> a.exc, args |-> <<>>]
             ELSE ParseArgList(Tail(tokens), Append(args, a.v))

_parse_args(args_str) ==
    IF StrStrip(args_str) = <<>> THEN [exc |-> "", args |-> <<>>]
    ELSE ParseArgList(SplitComma(args_str), <<>>)

\* a method match that ends the chain: the closing parenthesis must be last
MethodMatchLast(q) ==
    LET w == WordPrefixLen(q)
    IN  IF w >= 1 /\ Len(q) >= w + 2 /\ q[w + 1] = "(" /\ q[Len(q)] = ")"
           /\ ~Contains(q, ".")
        THEN [ok |-> TRUE, name |-> SubSeq(q, 1, w),
              args |-> SubSeq(q, w + 2, Len(q) - 1), rest |-> <<>>]
        ELSE [ok |-> FALSE, name |-> <<>>, args |-> <<>>, rest |-> <<>>]

\* re.match(r"^(\w+)\((.*?)\)(\.(.+))?$", remaining): the lazy group ends at
\* the first ")" that is last or is followed by "." and at least one character
MethodMatch(q) ==
    LET w == WordPrefixLen(q)
        closers == {j \in (w + 2)..Len(q) :
                      q[j] = ")" /\ (j = Len(q) \/ (q[j + 1] = "." /\ Len(q) >= j + 2))}
        j == Min(closers)
    IN  IF w >= 1 /\ Len(q) > w /\ q[w + 1] = "(" /\ closers # {}
        THEN [ok |-> TRUE, name |-> SubSeq(q, 1, w), args |-> SubSeq(q, w + 2, j - 1),
              rest |-> SubSeq(q, j + 2, Len(q))]
        ELSE [ok |-> FALSE, name |-> <<>>, args |-> <<>>, rest |-> <<>>]

\* an attribute match that consumes nothing of the remaining text
AttrMatchKeepsText(q) ==
    LET w == WordPrefixLen(q)
    IN  IF w >= 1 /\ (w = Len(q) \/ (q[w + 1] = "." /\ Len(q) >= w + 2))
        THEN [ok |-> TRUE, name |-> SubSeq(q, 1, w), rest |-> q]
        ELSE [ok |-> FALSE, name |-> <<>>, rest |-> <<>>]

\* re.match(r"^(\w+)(\.(.+))?$", remaining)
AttrMatch(q) ==
    LET w == WordPrefixLen(q)
    IN  IF w >= 1 /\ (w = Len(q) \/ (q[w + 1] = "." /\ Len(q) >= w + 2))
        THEN [ok |-> TRUE, name |-> SubSeq(q, 1, w), rest |-> SubSeq(q, w + 2, Len(q))]
        ELSE [ok |-> FALSE, name |-> <<>>, rest |-> <<>>]

Op(kind, name, args) == [op |-> kind, name |-> name, args |-> args]

\* one iteration of the while loop of MethodCallParser.parse (lines 77-101) on
\* a non-empty remaining text: stop = the iteration left the loop by break or
\* by the exception exc of _parse_args, otherwise op is the operation appended
Advance(remaining, first) ==
    LET Go(rest, still_first, op) ==
            [stop |-> FALSE, exc |-> "", remaining |-> rest, first |-> still_first,
             op |-> op]
        Stop(exc) ==
            [stop |-> TRUE, exc |-> exc, remaining |-> remaining, first |-> first,
             op |-> Op("", <<>>, <<>>)]
        Method(mm, parsed) ==
            IF parsed.exc # "" THEN Stop(parsed.exc)
            ELSE Go(mm.rest, FALSE, Op("method", mm.name, parsed.args))
        Attr(am) ==
            IF am.ok THEN Go(am.rest, FALSE, Op("attr", am.name, <<>>)) ELSE Stop("")
        Later(mm) ==
            IF mm.ok THEN Method(mm, _parse_args(mm.args)) ELSE Attr(AttrMatch(remaining))
        First(key) ==
            Go(SubSeq(remaining, Len(key) + 2, Len(remaining)), FALSE, Op("key", key, <<>>))
    IN  IF first
        THEN IF Contains(remaining, ".")
             THEN First(SubSeq(remaining, 1, IndexOf(remaining, ".") - 1))
             ELSE Go(<<>>, TRUE, Op("key", remaining, <<>>))
        ELSE Later(MethodMatch(remaining))

\* the iteration with its effect on the list of operations
Iteration(remaining, first, operations) ==
    LET Applied(a) ==
            [stop |-> a.stop, exc |-> a.exc, remaining |-> a.remaining,
             first |-> a.first,
             operations |-> IF a.stop THEN operations ELSE Append(operations, a.op)]
    IN  Applied(Advance(remaining, first))

\* the while loop of MethodCallParser.parse; steps counts its iterations
RECURSIVE ParseLoop(_, _, _, _)
ParseLoop(remaining, first, operations, steps) ==
    LET Continue(it) ==
            IF it.stop
            THEN [exc |-> it.exc, ops |-> it.operations, steps |-> steps + 1]
            ELSE ParseLoop(it.remaining, it.first, it.operations, steps + 1)
    IN  IF remaining = <<>> THEN [exc |-> "", ops |-> operations, steps |-> steps]
        ELSE Continue(Iteration(remaining, first, operations))

parse(context_key) == ParseLoop(context_key, TRUE, <<>>, 0)

(***************************************************************************)
(* Host objects of the context.  Object 1 has an attribute `a` and a       *)
(* method `m` of one argument that returns; `m` of object 2 raises         *)
(* ValueError and `m` of object 3 raises KeyError.                         *)
(***************************************************************************)
N_a == <<"a">>
N_m == <<"m">>

\* getattr(value, name)
GetAttr(value, name) ==
    IF value.t = "obj" /\ name = N_a /\ value.n = 1 THEN Ret(IntV(7))
    ELSE IF value.t = "obj" /\ name = N_m THEN Ret(MethodV(value.n, N_m))
    ELSE Raise("AttributeError")

\* method(*args)
CallValue(method, args) ==
    IF method.t # "method" THEN Raise("TypeError")
    ELSE IF Len(args) # 1 THEN Raise("TypeError")
    ELSE CASE method.n = 1 -> Ret(StrV(<<"m", ":">> \o PyStr(args[1])))
           [] method.n = 2 -> Raise("ValueError")
           [] OTHER        -> Raise("KeyError")

(***************************************************************************)
(* The input resolver (registry_builder.py, RegistryBuilder).              *)
(***************************************************************************)
S_upper == <<"u", "p", "p", "e", "r">>
S_lower == <<"l", "o", "w", "e", "r">>
S_title == <<"t", "i", "t", "l", "e">>
S_strip == <<"s", "t", "r", "i", "p">>
S_int   == <<"i", "n", "t">>
S_float == <<"f", "l", "o", "a", "t">>
S_str   == <<"s", "t", "r">>
S_bool  == <<"b", "o", "o", "l">>

\* str.title(): a letter is upper-cased after a non-letter, lower-cased after a letter
IsLetter(c) == c \in Range(LowerAZ) \/ c \in Range(UpperAZ)
StrTitle(q) == [i \in DOMAIN q |->
                  IF i = 1 \/ ~IsLetter(q[i - 1]) THEN UpperChar(q[i]) ELSE LowerChar(q[i])]

_apply_transform(value, transform) ==
    LET AsInt(r) == IF r.exc # "" THEN Raise(r.exc) ELSE Ret(IntV(r.i))
        AsFloat(r) == IF r.exc # "" THEN Raise(r.exc) ELSE Ret(FloatV(r.m))
        Text(q) ==
            CASE transform = StrV(S_upper) -> Ret(StrV(StrUpper(q)))
              [] transform = StrV(S_lower) -> Ret(StrV(StrLower(q)))
              [] transform = StrV(S_title) -> Ret(StrV(StrTitle(q)))
              [] transform = StrV(S_strip) -> Ret(StrV(StrStrip(q)))
              [] transform = StrV(S_str)   -> Ret(StrV(q))
    IN  CASE transform \in {StrV(S_upper), StrV(S_lower), StrV(S_title), StrV(S_strip),
                            StrV(S_str)}   -> Text(PyStr(value))
          [] transform = StrV(S_int)       -> AsInt(ToInt(value))
          [] transform = StrV(S_float)     -> AsFloat(ToFloat(value))
          [] transform = StrV(S_bool)      -> Ret(BoolV(Truthy(value)))
          [] OTHER                         -> Ret(value)

CaughtByGetter == {"AttributeError", "TypeError", "KeyError"}

\* the for loop of getter over the parsed operations, inside its try block:
\* done = TRUE when the loop returned `default` from inside (a key miss)
RECURSIVE Replay(_, _, _, _)
Replay(operations, value, context, default) ==
    LET Continue(got) ==
            IF got.exc # "" THEN [exc |-> got.exc, v |-> NoneV, done |-> TRUE]
            ELSE Replay(Tail(operations), got.v, context, default)
        Key(got) ==
            IF got = NoneV THEN [exc |-> "", v |-> default, done |-> TRUE]
            ELSE Replay(Tail(operations), got, context, default)
        Invoke(o, method) ==
            IF method.exc # "" THEN [exc |-> method.exc, v |-> NoneV, done |-> TRUE]
            ELSE Continue(CallValue(method.v, o.args))
        Apply(o) ==
            CASE o.op = "key"    -> Key(DictGet(context, o.name, NoneV))
              [] o.op = "attr"   -> Continue(GetAttr(value, o.name))
              [] o.op = "method" -> Invoke(o, GetAttr(value, o.name))
    IN  IF operations = <<>> THEN [exc |-> "", v |-> value, done |-> FALSE]
        ELSE Apply(Head(operations))

\* the getter _create_getter(context_key, default, transform) returns, applied
\* to a context
getter(g, context) ==
    LET Finish(run) ==
            IF run.exc \in CaughtByGetter THEN Ret(g.default)
            ELSE IF run.exc # "" THEN Raise(run.exc)
            ELSE IF run.done THEN Ret(run.v)
            ELSE IF Truthy(g.transform) /\ run.v # NoneV
                 THEN _apply_transform(run.v, g.transform)
            ELSE Ret(run.v)
        Run(parsed) ==
            IF parsed.exc # "" THEN Raise(parsed.exc)
            ELSE Finish(Replay(parsed.ops, NoneV, context, g.default))
    IN  IF g.context_key = NoneV THEN Ret(g.default)
        ELSE Run(parse(g.context_key.s))

(***************************************************************************)
(* The configuration the loader parses (loader.py, LayoutsConfig): the     *)
(* presenters, the formatter presets and the input mappings of one         *)
(* configuration file.                                                     *)
(***************************************************************************)
N_b == <<"b">>
N_r == <<"r">>
N_s == <<"s">>
N_t == <<"t">>
N_z == <<"z">>
N_p == <<"p">>
N_u == <<"u">>
N_x == <<"x">>
N_k == <<"k">>
N_j == <<"j">>
S_usd == <<"u", "s", "d">>
S_zzz == <<"z", "z", "z">>

NoParams == <<>>
Dict1(k, v) == k :> v
DictSet(d, k, v) == [x \in DOMAIN d \cup {k} |-> IF x = k THEN v ELSE d[x]]
DictDel(d, k) == [x \in DOMAIN d \ {k} |-> d[x]]

\* [presenters.*]: PresenterConfig(input, formatter, formatter_params)
Presenters ==
    (N_p :> [input |-> StrV(N_b), formatter |-> StrV(S_text),
             formatter_params |-> Dict1("prefix", StrV(<<">">>))])
    @@ (N_u :> [input |-> StrV(N_a), formatter |-> StrV(S_usd),
                formatter_params |-> NoParams])

\* [formatters.*]: FormatterConfigParams dumped without its unset fields; the
\* preset `number` has the name of a built-in formatter
FormatterPresets ==
    (S_usd :> (("type" :> StrV(S_price)) @@ ("symbol" :> StrV(<<"$">>))
               @@ ("decimals" :> IntV(1))))
    @@ (S_number :> (("type" :> StrV(S_text)) @@ ("suffix" :> StrV(<<"!">>))))

\* [inputs.*]: the fields of InputMapping the registry builder reads
Mapping(context_key, default, transform) ==
    [context_key |-> context_key, default |-> default, transform |-> transform,
     operation |-> NoneV]

InputMappings ==
    (N_r :> Mapping(StrV(N_a), IntV(0), NoneV))
    @@ (N_t :> Mapping(StrV(N_s), NoneV, StrV(S_int)))
    @@ (N_s :> Mapping(NoneV, StrV(<<"d">>), StrV(S_upper)))

\* _create_getter(context_key, default, transform): the closure's captured values
_create_getter(context_key, default, transform) ==
    [context_key |-> context_key, default |-> default, transform |-> transform]

(***************************************************************************)
(* The operation library (RegistryBuilder.OPERATIONS) and the getter of an *)
(* operation input.  The numbers are floats held in thousandths; a         *)
(* quotient is kept to the nearest thousandth.                             *)
(***************************************************************************)
O_celsius_to_fahrenheit == <<"c", "e", "l", "s", "i", "u", "s", "_", "t", "o", "_", "f", "a", "h", "r", "e", "n", "h", "e", "i", "t">>
O_fahrenheit_to_celsius == <<"f", "a", "h", "r", "e", "n", "h", "e", "i", "t", "_", "t", "o", "_", "c", "e", "l", "s", "i", "u", "s">>
O_multiply == <<"m", "u", "l", "t", "i", "p", "l", "y">>
O_divide == <<"d", "i", "v", "i", "d", "e">>
O_add == <<"a", "d", "d">>
O_subtract == <<"s", "u", "b", "t", "r", "a", "c", "t">>
O_average == <<"a", "v", "e", "r", "a", "g", "e">>
O_min == <<"m", "i", "n">>
O_max == <<"m", "a", "x">>
O_abs == <<"a", "b", "s">>
O_round == <<"r", "o", "u", "n", "d">>
O_linear_transform == <<"l", "i", "n", "e", "a", "r", "_", "t", "r", "a", "n", "s", "f", "o", "r", "m">>
O_concat == <<"c", "o", "n", "c", "a", "t">>
O_split == <<"s", "p", "l", "i", "t">>
O_substring == <<"s", "u", "b", "s", "t", "r", "i", "n", "g">>
O_conditional == <<"c", "o", "n", "d", "i", "t", "i", "o", "n", "a", "l">>
O_format_number == <<"f", "o", "r", "m", "a", "t", "_", "n", "u", "m", "b", "e", "r">>
O_ceil == <<"c", "e", "i", "l">>

\* the keys of the OPERATIONS dict
OPERATIONS ==
    {O_celsius_to_fahrenheit, O_fahrenheit_to_celsius, O_multiply, O_divide,
     O_add, O_subtract, O_average, O_min,
     O_max, O_abs, O_round}

\* a list of strings, a list of values
NamesV(names) == [t |-> "list", n |-> 0, s |-> names]
ValuesV(items) == [t |-> "list", n |-> 0, s |-> items]

DivRound(a, b) ==
    LET num == IF b < 0 THEN 0 - a ELSE a
        den == IF b < 0 THEN 0 - b ELSE b
    IN  IF 2 * (num % den) >= den THEN (num \div den) + 1 ELSE num \div den

RECURSIVE Sum(_)
Sum(q) == IF q = <<>> THEN 0 ELSE Head(q) + Sum(Tail(q))

\* round(v, decimals) of a float: to the nearest multiple of 10^-decimals,
\* ties to the even one
PyRound(m, decimals) ==
    LET unit == Pow10(3 - decimals)
        q == m \div unit
        r == m % unit
    IN  (IF 2 * r > unit \/ (2 * r = unit /\ q % 2 = 1) THEN q + 1 ELSE q) * unit

\* OPERATIONS[operation](*args): the value, or the TypeError of a call with
\* the wrong number of arguments
OperationCall(operation, args) ==
    LET n == Len(args)
        m == [i \in 1..n |-> ToFloat(args[i]).m]
        Unary(v) == IF n # 1 THEN Raise("TypeError") ELSE Ret(FloatV(v))
        Binary(v) == IF n # 2 THEN Raise("TypeError") ELSE Ret(v)
    IN  CASE operation = O_celsius_to_fahrenheit ->
                 Unary(IF n = 1 THEN DivRound(m[1] * 9, 5) + 32 * Scale ELSE 0)
          [] operation = O_fahrenheit_to_celsius ->
                 Unary(IF n = 1 THEN DivRound((m[1] - 32 * Scale) * 5, 9) ELSE 0)
          [] operation = O_multiply ->
                 IF n >= 2 THEN Ret(FloatV(DivRound(m[1] * m[2], Scale)))
                 ELSE IF n = 1 THEN Ret(args[1]) ELSE Ret(IntV(0))
          [] operation = O_divide ->
                 Binary(IF n = 2 /\ m[2] # 0 THEN FloatV(DivRound(m[1] * Scale, m[2]))
                        ELSE NoneV)
          [] operation = O_add ->
                 IF n = 0 THEN Ret(IntV(0)) ELSE Ret(FloatV(Sum(m)))
          [] operation = O_subtract ->
                 Binary(IF n = 2 THEN FloatV(m[1] - m[2]) ELSE NoneV)
          [] operation = O_average ->
                 IF n = 0 THEN Ret(IntV(0)) ELSE Ret(FloatV(DivRound(Sum(m), n)))
          [] operation = O_min ->
                 IF n = 0 THEN Ret(NoneV) ELSE Ret(FloatV(Min({m[i] : i \in 1..n})))
          [] operation = O_max ->
                 IF n = 0 THEN Ret(NoneV) ELSE Ret(FloatV(Max({m[i] : i \in 1..n})))
          [] operation = O_abs ->
                 Unary(IF n = 1 /\ m[1] < 0 THEN 0 - m[1] ELSE IF n = 1 THEN m[1] ELSE 0)
          [] operation = O_round ->
                 IF n = 1 THEN Ret(FloatV(PyRound(m[1], 0)))
                 ELSE IF n = 2 THEN Ret(FloatV(PyRound(m[1], ToInt(args[2]).i)))
                 ELSE Raise("TypeError")

\* a source lookup that resolves the name a through its registered getter
NumericValueThroughRegistry(context, key) ==
    LET value == IF key = N_a
                 THEN getter(_create_getter(StrV(N_x), NoneV, NoneV), context).v
                 ELSE DictGet(context, key, NoneV)
    IN  IF value = NoneV \/ value.t \notin {"int", "float", "bool"} THEN NoneV
        ELSE FloatV(ToFloat(value).m)

\* _get_numeric_value(context, key, default): float(value), or None
_get_numeric_value(context, key) ==
    LET value == DictGet(context, key, NoneV)
    IN  IF value = NoneV \/ value.t \notin {"int", "float", "bool"} THEN NoneV
        ELSE FloatV(ToFloat(value).m)

\* a linear transform that leaves the division out when the divisor is zero
ApplyLinearTransformUnguarded(value, multiply, divide, add, default) ==
    LET m == IF multiply # NoneV THEN ToFloat(multiply).m ELSE Scale
        d == IF divide # NoneV /\ divide.n # 0 THEN ToFloat(divide).m ELSE Scale
        a == IF add # NoneV THEN ToFloat(add).m ELSE 0
    IN  FloatV(DivRound(value.n * m, d) + a)

\* _apply_linear_transform(value, multiply, divide, add, default)
_apply_linear_transform(value, multiply, divide, add, default) ==
    LET m == IF multiply # NoneV THEN ToFloat(multiply).m ELSE Scale
        d == IF divide # NoneV THEN ToFloat(divide).m ELSE Scale
        a == IF add # NoneV THEN ToFloat(add).m ELSE 0
    IN  IF d = 0 THEN default ELSE FloatV(DivRound(value.n * m, d) + a)

\* `if sources:` on None or a list
HasSources(params) == params.sources # NoneV /\ params.sources.s # <<>>

\* _handle_linear_transform(context, params)
_handle_linear_transform(context, params) ==
    LET source_key == IF HasSources(params) THEN StrV(params.sources.s[1])
                      ELSE params.context_key
        Use(value) ==
            IF value = NoneV THEN params.default
            ELSE _apply_linear_transform(value, params.multiply, params.divide,
                                         params.add, params.default)
    IN  IF source_key = NoneV \/ source_key.t # "str" THEN Ret(params.default)
        ELSE Ret(Use(_get_numeric_value(context, source_key.s)))

\* the decimals of round: int(multiply) if multiply is not None else 0
Decimals(multiply) == IF multiply # NoneV THEN ToInt(multiply).i ELSE 0

\* a handler that passes only the first source to the operation
HandleSourcesFirstOnly(context, operation, params) ==
    LET Use(first) == IF first = NoneV THEN Ret(params.default)
                      ELSE OperationCall(operation, <<first>>)
    IN  Use(_get_numeric_value(context, params.sources.s[1]))

\* _handle_sources_operation(context, operation, op_func, params)
_handle_sources_operation(context, operation, params) ==
    LET sources == params.sources.s
        values == [i \in 1..Len(sources) |-> _get_numeric_value(context, sources[i])]
        Result(r) == IF r.exc = "" /\ r.v = NoneV THEN Ret(params.default) ELSE r
    IN  IF \E i \in 1..Len(sources) : values[i] = NoneV THEN Ret(params.default)
        ELSE IF operation = O_round /\ Len(values) = 1
        THEN OperationCall(operation, <<values[1], IntV(Decimals(params.multiply))>>)
        ELSE Result(OperationCall(operation, values))

\* _handle_context_key_operation(context, operation, op_func, params)
_handle_context_key_operation(context, operation, params) ==
    LET Use(value) ==
            IF value = NoneV THEN Ret(params.default)
            ELSE IF operation = O_round
            THEN OperationCall(operation, <<value, IntV(Decimals(params.multiply))>>)
            ELSE OperationCall(operation, <<value>>)
    IN  IF params.context_key = NoneV THEN Ret(params.default)
        ELSE Use(_get_numeric_value(context, params.context_key.s))

\* _create_operation_getter(mapping): the closure's captured values, or the
\* ValueError("Unknown operation: ...") raised while the registry is built
_create_operation_getter(mapping) ==
    IF mapping.operation.s \notin OPERATIONS /\ mapping.operation # StrV(O_linear_transform)
    THEN Raise("ValueError")
    ELSE Ret([operation |-> mapping.operation.s,
              params |-> [sources |-> mapping.sources,
                          context_key |-> mapping.context_key,
                          default |-> mapping.default,
                          multiply |-> mapping.multiply,
                          add |-> mapping.add,
                          divide |-> mapping.divide]])

CaughtByOperationGetter == {"TypeError", "ValueError", "ZeroDivisionError", "KeyError"}

\* the getter _create_operation_getter(mapping) returns, applied to a context
operation_getter(g, context) ==
    LET Caught(r) == IF r.exc \in CaughtByOperationGetter THEN Ret(g.params.default) ELSE r
    IN  IF g.operation = O_linear_transform
        THEN Caught(_handle_linear_transform(context, g.params))
        ELSE IF g.operation \notin OPERATIONS THEN Ret(g.params.default)
        ELSE IF HasSources(g.params)
        THEN Caught(_handle_sources_operation(context, g.operation, g.params))
        ELSE IF Truthy(g.params.context_key)
        THEN Caught(_handle_context_key_operation(context, g.operation, g.params))
        ELSE Ret(g.params.default)

\* a registered getter applied to a context
call_getter(g, context) ==
    IF "operation" \in DOMAIN g THEN operation_getter(g, context)
    ELSE getter(g, context)

\* RegistryBuilder.build_from_config: the registry of getters, or the
\* exception of the first mapping whose getter cannot be created
build_from_config(mappings) ==
    LET Built(field_name) ==
            LET mapping == mappings[field_name]
                context_key == IF Truthy(mapping.context_key) THEN mapping.context_key
                               ELSE StrV(field_name)
            IN  IF Truthy(mapping.operation) THEN _create_operation_getter(mapping)
                ELSE Ret(_create_getter(context_key, mapping.default, mapping.transform))
    IN  IF \E field_name \in DOMAIN mappings : Built(field_name).exc # ""
        THEN [exc |-> "ValueError", registry |-> <<>>]
        ELSE [exc |-> "", registry |-> [field_name \in DOMAIN mappings |->
                                            Built(field_name).v]]

Registry == build_from_config(InputMappings).registry

\* BaseFieldRegistry.has_field and BaseFieldRegistry.get: a dict of getters
has_field(registry, name) == name \in DOMAIN registry
registry_get(registry, name) == registry[name]

\* LayoutLoader.get_presenter_config / get_formatter_preset: the first accessor
\* loads the configuration (self._layouts_config), the dump of the entry or None
get_presenter_config(presenter_name) ==
    IF presenter_name.t = "str" /\ presenter_name.s \in DOMAIN Presenters
    THEN [found |-> TRUE, cfg |-> Presenters[presenter_name.s]]
    ELSE [found |-> FALSE,
          cfg |-> [input |-> NoneV, formatter |-> NoneV, formatter_params |-> NoParams]]

get_formatter_preset(preset_name) ==
    IF preset_name.t = "str" /\ preset_name.s \in DOMAIN FormatterPresets
    THEN [found |-> TRUE, cfg |-> FormatterPresets[preset_name.s]]
    ELSE [found |-> FALSE, cfg |-> NoParams]

(***************************************************************************)
(* The layout engine (engine.py, LayoutEngine).  An engine is the record   *)
(* [has_registry, has_loader, cache]: whether it was built with a field    *)
(* registry and a loader, and whether the loader has parsed its files.     *)
(***************************************************************************)
RefV(name) == [t |-> "ref", n |-> 0, s |-> name]

\* a lookup that reads the raw context first and the registry only for the
\* names the context lacks
GetInputValueContextFirst(eng, input_name, context) ==
    IF input_name.s \in DOMAIN context THEN Ret(context[input_name.s])
    ELSE IF eng.has_registry /\ has_field(Registry, input_name.s)
    THEN getter(registry_get(Registry, input_name.s), context)
    ELSE Ret(NoneV)

\* _get_input_value (lines 217-239)
_get_input_value(eng, input_name, context) ==
    IF eng.has_registry /\ has_field(Registry, input_name.s)
    THEN getter(registry_get(Registry, input_name.s), context)
    ELSE IF input_name.s \in DOMAIN context THEN Ret(context[input_name.s])
    ELSE Ret(NoneV)

\* The dictionaries a render works on are objects: "context", "layout" (a
\* slot's own formatter_params), "registry" and "loader" (the configuration the
\* loader caches) belong to the caller, "dump" is the dictionary a loader
\* accessor returns (model_dump builds a new one at each call, loader.py lines
\* 550 and 634), "copy" the preset.copy() of line 274, "new" a dictionary
\* literal of the engine, "argument" the formatter_params _format_value was
\* handed.  A write is one mutating call (pop, item assignment) on an object.
Write(obj, key) == [obj |-> obj, key |-> key]
CallerOwned == {"context", "layout", "registry", "loader"}

\* lines 267-268: an empty formatter_params is replaced by a new dictionary
Passed(formatter_params) == IF formatter_params = NoParams THEN "new" ELSE "argument"

\* a lookup that tries the built-in types first and the presets only for the
\* names that are no built-in type
ResolveFormatterBuiltinFirst(eng, formatter_name, formatter_params) ==
    IF eng.has_loader /\ formatter_params = NoParams
       /\ FormatterRegistryGet(formatter_name).exc # ""
       /\ get_formatter_preset(formatter_name).found
    THEN [type |-> DictGet(get_formatter_preset(formatter_name).cfg, "type",
                           formatter_name),
          params |-> DictDel(get_formatter_preset(formatter_name).cfg, "type"),
          asked |-> TRUE, obj |-> "copy", writes |-> <<Write("copy", "type")>>]
    ELSE [type |-> DictGet(formatter_params, "type", formatter_name),
          params |-> formatter_params, asked |-> eng.has_loader,
          obj |-> Passed(formatter_params), writes |-> <<>>]

\* the choice of formatter type and parameters in _format_value (lines 270-279)
ResolveFormatter(eng, formatter_name, formatter_params) ==
    LET Preset(preset) ==
            IF preset.found
            THEN [type |-> DictGet(preset.cfg, "type", formatter_name),
                  params |-> DictDel(preset.cfg, "type"), asked |-> TRUE,
                  obj |-> "copy", writes |-> <<Write("copy", "type")>>]
            ELSE [type |-> formatter_name, params |-> NoParams, asked |-> TRUE,
                  obj |-> "new", writes |-> <<>>]
    IN  IF eng.has_loader /\ formatter_params = NoParams
        THEN Preset(get_formatter_preset(formatter_name))
        ELSE [type |-> DictGet(formatter_params, "type", formatter_name),
              params |-> formatter_params, asked |-> FALSE,
              obj |-> Passed(formatter_params), writes |-> <<>>]

\* the try/except around get_formatter_registry().get (lines 281-284): without
\* the handler the ValueError of an unregistered type would leave _format_value
LookupFormatterUnhandled(formatter_type) == FormatterRegistryGet(formatter_type)

\* lines 281-284: the formatter registered for the type, or the text formatter
LookupFormatter(formatter_type) ==
    LET Handled(found) == IF found.exc = "ValueError" THEN [exc |-> "", fn |-> S_text]
                          ELSE found
    IN  Handled(FormatterRegistryGet(formatter_type))

\* a template branch that adds the three references to formatter_params itself
TemplateKwargsInPlace(params, obj) ==
    [kw |-> DictSet(DictSet(DictSet(params, "_context", RefV(<<"c">>)),
                            "_engine", RefV(<<"e">>)),
                    "_loader", RefV(<<"l">>)),
     writes |-> <<Write(obj, "_context"), Write(obj, "_engine"), Write(obj, "_loader")>>]

\* lines 286-292: {**formatter_params, "_context": ..., "_engine": ...,
\* "_loader": ...} is a new dictionary, formatter_params itself is not written
TemplateKwargs(params, obj) ==
    [kw |-> DictSet(DictSet(DictSet(params, "_context", RefV(<<"c">>)),
                            "_engine", RefV(<<"e">>)),
                    "_loader", RefV(<<"l">>)),
     writes |-> <<>>]

\* _format_value: the result, with the formatter function called (fn), the type
\* looked up (type), the keyword arguments (kw) and whether the loader was asked
_format_value(eng, value, formatter_name, formatter_params, context) ==
    LET Finish(r, fn, t, out) ==
            [exc |-> out.exc, v |-> out.v, fn |-> fn, type |-> r.type, kw |-> t.kw,
             asked |-> r.asked, writes |-> r.writes \o t.writes]
        Call(r, fn, t) == Finish(r, fn, t, CallFormatter(fn, value, t.kw))
        Lookup(r, found) ==
            IF found.exc # ""
            THEN [exc |-> found.exc, v |-> NoneV, fn |-> <<>>, type |-> r.type,
                  kw |-> r.params, asked |-> r.asked, writes |-> r.writes]
            ELSE Call(r, found.fn,
                      IF r.type = StrV(S_template)
                      THEN TemplateKwargs(r.params, r.obj)
                      ELSE [kw |-> r.params, writes |-> <<>>])
        Resolved(r) == Lookup(r, LookupFormatter(r.type))
    IN  Resolved(ResolveFormatter(eng, formatter_name, formatter_params))

\* a choice of names in which the presenter only fills what the slot omits
ChooseNamesSlotFirst(eng, cfg) ==
    LET lookup == Truthy(cfg.presenter) /\ eng.has_loader
        Presenter(presenter_config) ==
            IF lookup /\ presenter_config.found
            THEN [input |-> IF cfg.input = NoneV THEN presenter_config.cfg.input
                            ELSE cfg.input,
                  formatter |-> IF cfg.formatter = NoneV
                                THEN presenter_config.cfg.formatter ELSE cfg.formatter,
                  params |-> IF cfg.formatter_params = NoParams
                             THEN presenter_config.cfg.formatter_params
                             ELSE cfg.formatter_params,
                  lookup |-> lookup, owner |-> "dump"]
            ELSE [input |-> cfg.input, formatter |-> cfg.formatter,
                  params |-> cfg.formatter_params, lookup |-> lookup,
                  owner |-> "layout"]
    IN  Presenter(get_presenter_config(cfg.presenter))

\* the names a slot renders with (lines 110-129 and 184-201): its own, or with
\* a presenter the loader defines the presenter's formatter and parameters and,
\* for a slot without input, the presenter's input; lookup = the loader was asked
ChooseNames(eng, cfg) ==
    LET lookup == Truthy(cfg.presenter) /\ eng.has_loader
        Presenter(presenter_config) ==
            IF lookup /\ presenter_config.found
            THEN [input |-> IF cfg.input = NoneV THEN presenter_config.cfg.input
                            ELSE cfg.input,
                  formatter |-> presenter_config.cfg.formatter,
                  params |-> presenter_config.cfg.formatter_params,
                  lookup |-> lookup, owner |-> "dump"]
            ELSE [input |-> cfg.input, formatter |-> cfg.formatter,
                  params |-> cfg.formatter_params, lookup |-> lookup,
                  owner |-> "layout"]
    IN  Presenter(get_presenter_config(cfg.presenter))

\* the record of what one slot rendered with
Event(n, value, formatted, fn, type, kw, writes) ==
    [input |-> n.input, value |-> value, formatter |-> n.formatter,
     params |-> n.params, formatted |-> formatted, fn |-> fn, type |-> type, kw |-> kw,
     writes |-> [i \in DOMAIN writes |->
                   IF writes[i].obj = "argument" THEN Write(n.owner, writes[i].key)
                   ELSE writes[i]]]

\* a slot that is not skipped, from the input lookup to the string to place
\* (lines 134-142 and 206-213)
RenderSlot(eng, n, context) ==
    LET Done(exc, final, ev, asked) ==
            [skip |-> FALSE, exc |-> exc,
             text |-> IF final = NoneV THEN <<>> ELSE PyStr(final),
             ev |-> ev, asked |-> n.lookup \/ asked]
        Formatted(value, fmt) ==
            Done(fmt.exc, IF fmt.exc = "" THEN fmt.v ELSE NoneV,
                 Event(n, value, TRUE, fmt.fn, fmt.type, fmt.kw, fmt.writes), fmt.asked)
        Resolved(value) ==
            IF value.exc # ""
            THEN Done(value.exc, NoneV, Event(n, NoneV, FALSE, <<>>, NoneV, NoParams, <<>>), FALSE)
            ELSE IF Truthy(n.formatter)
            THEN Formatted(value.v,
                           _format_value(eng, value.v, n.formatter, n.params, context))
            ELSE Done("", value.v, Event(n, value.v, FALSE, <<>>, NoneV, NoParams, <<>>), FALSE)
    IN  Resolved(_get_input_value(eng, n.input, context))

\* a slot loop without the `if input_name is None: continue` of lines 131-132
ProcessSlotNoSkip(eng, cfg, context) == RenderSlot(eng, ChooseNames(eng, cfg), context)

\* one slot of either loop (lines 119-139 and 191-211): skipped when neither
\* the slot nor its presenter names an input (lines 131-132 and 203-204)
ProcessSlot(eng, cfg, context) ==
    LET Chosen(n) ==
            IF n.input = NoneV
            THEN [skip |-> TRUE, exc |-> "", text |-> <<>>,
                  ev |-> Event(n, NoneV, FALSE, <<>>, NoneV, NoParams, <<>>),
                  asked |-> n.lookup]
            ELSE RenderSlot(eng, n, context)
    IN  Chosen(ChooseNames(eng, cfg))

\* the loader after an accessor was called on it: its configuration is cached
Loaded(eng, asked) == IF asked THEN [eng EXCEPT !.cache = "loaded"] ELSE eng

\* line.get("index", 0) of the sizing pass (line 106)
SizingIndex(line) == IF line.index = NoneV THEN 0 ELSE line.index.n

\* an assignment that keeps what an earlier slot wrote to the position
SetItemIfEmpty(line_str, at, text) ==
    IF line_str[at + 1] = <<>> THEN [line_str EXCEPT ![at + 1] = text] ELSE line_str

\* line_str[index] = ... (line 142), at the list position at >= 0
SetItem(line_str, at, text) == [line_str EXCEPT ![at + 1] = text]

\* the for loop of build_line_str from slot k on (lines 109-142); log holds one
\* event per slot that was not skipped, at = the list position written
RECURSIVE LinesLoop(_, _, _, _, _, _)
LinesLoop(eng, lines, k, context, line_str, log) ==
    LET Place(p, eng2, index, n) ==
            IF index < n /\ n + index < 0
            THEN [exc |-> "IndexError", out |-> <<>>, log |-> log, eng |-> eng2,
                  failed |-> k]
            ELSE LinesLoop(eng2, lines, k + 1, context,
                           IF index < n
                           THEN SetItem(line_str, IF index >= 0 THEN index ELSE n + index,
                                        p.text)
                           ELSE line_str,
                           Append(log, [slot |-> k, placed |-> index < n,
                                        at |-> IF index >= 0 THEN index ELSE n + index]
                                       @@ p.ev))
        Step(p, eng2) ==
            IF p.skip THEN LinesLoop(eng2, lines, k + 1, context, line_str, log)
            ELSE IF p.exc # ""
            THEN [exc |-> p.exc, out |-> <<>>, log |-> log, eng |-> eng2,
                  failed |-> k]
            ELSE Place(p, eng2, lines[k].index.n, Len(line_str))
        Slot(p) == Step(p, Loaded(eng, p.asked))
    IN  IF k > Len(lines) THEN [exc |-> "", out |-> line_str, log |-> log, eng |-> eng,
              failed |-> 0]
        ELSE IF lines[k].index = NoneV
        THEN LinesLoop(eng, lines, k + 1, context, line_str, log)
        ELSE Slot(ProcessSlot(eng, lines[k], context))

build_line_str(eng, lines, context) ==
    LET max_index == IF lines = <<>> THEN 0
                     ELSE Max({SizingIndex(lines[i]) : i \in DOMAIN lines})
        line_str == [i \in 1..(max_index + 1) |-> <<>>]
    IN  LinesLoop(eng, lines, 1, context, line_str, <<>>)

\* the for loop of build_dict_str from item k on (lines 181-213)
RECURSIVE ItemsLoop(_, _, _, _, _, _)
ItemsLoop(eng, items, k, context, result, log) ==
    LET Step(p, eng2) ==
            IF p.skip THEN ItemsLoop(eng2, items, k + 1, context, result, log)
            ELSE IF p.exc # ""
            THEN [exc |-> p.exc, out |-> <<>>, log |-> log, eng |-> eng2,
                  failed |-> k]
            ELSE ItemsLoop(eng2, items, k + 1, context,
                           DictSet(result, items[k].key.s, p.text),
                           Append(log, [slot |-> k, placed |-> TRUE, at |-> 0] @@ p.ev))
        Item(p) == Step(p, Loaded(eng, p.asked))
    IN  IF k > Len(items) THEN [exc |-> "", out |-> result, log |-> log, eng |-> eng,
              failed |-> 0]
        ELSE IF items[k].key = NoneV
        THEN ItemsLoop(eng, items, k + 1, context, result, log)
        ELSE Item(ProcessSlot(eng, items[k], context))

build_dict_str(eng, items, context) == ItemsLoop(eng, items, 1, context, <<>>, <<>>)

(***************************************************************************)
(* The calls explored.  Two families of layouts: the structural family     *)
(* varies the number of slots and their indices (or keys) over slots       *)
(* without presenter or formatter; the slot family renders one slot at     *)
(* index 0 (or key k) and varies its input, presenter, formatter and       *)
(* parameters.                                                             *)
(***************************************************************************)
Indices == {IntV(i) : i \in (0 - MaxIndex)..MaxIndex}

SeqsUpTo(S, n) == UNION {[1..m -> S] : m \in 0..n}

StructLineSlots ==
    [index : {NoneV} \cup Indices, input : {NoneV, StrV(N_a), StrV(N_t)},
     presenter : {NoneV}, formatter : {NoneV}, formatter_params : {NoParams}]

StructItemSlots ==
    [key : {NoneV, StrV(N_k), StrV(N_j)}, input : {NoneV, StrV(N_a), StrV(N_t)},
     presenter : {NoneV}, formatter : {NoneV}, formatter_params : {NoParams}]

\* contexts of the structural family: the input t (int of s) resolves in the
\* first and fails in the second
CtxGood == (N_a :> IntV(1)) @@ (N_s :> StrV(<<"1", "2">>))
CtxBad  == (N_a :> IntV(1)) @@ (N_s :> StrV(<<"h", "i">>))
StructContexts == {CtxGood, CtxBad}

\* the template of the round-trip scenario and its list of fields
TemplateAB == <<"{", "{", "a", "}", "}", " ", "a", "n", "d", " ",
                "{", "{", "b", "}", "}">>
ListV(id) == [t |-> "list", n |-> id, s |-> <<>>]
Lists == <<(<<N_a, N_b>>)>>

TemplateParams == ("template" :> StrV(TemplateAB)) @@ ("fields" :> ListV(1))

SlotInputs == {NoneV, StrV(N_a), StrV(N_r), StrV(N_t), StrV(N_z)}
SlotPresenters == {NoneV, StrV(N_p), StrV(N_u), StrV(N_x)}
SlotFormatters ==
    {NoneV, StrV(S_zzz), StrV(S_usd), StrV(S_template)}
    \cup {StrV(f) : f \in BuiltinFormatters}
SlotParams ==
    {NoParams, Dict1("prefix", StrV(<<">">>)), Dict1("type", StrV(S_text_uppercase)),
     TemplateParams}

SlotLineSlots ==
    [index : {IntV(0)}, input : SlotInputs, presenter : SlotPresenters,
     formatter : SlotFormatters, formatter_params : SlotParams]

SlotItemSlots ==
    [key : {StrV(N_k)}, input : SlotInputs, presenter : SlotPresenters,
     formatter : SlotFormatters, formatter_params : SlotParams]

\* contexts of the slot family
Ctx0    == <<>>
CtxAB   == (N_a :> IntV(1)) @@ (N_b :> IntV(2))
CtxFull == (N_a :> StrV(<<"h", "i">>)) @@ (N_b :> IntV(2)) @@ (N_r :> IntV(9))
           @@ (N_s :> StrV(<<"1", "2">>)) @@ (N_t :> NoneV)
SlotContexts == {Ctx0, CtxAB, CtxFull, CtxBad}

\* the order family: one slot more than the structural family, all at index 0
\* (or key k), with the inputs a and t and slots without input
OrderLineSlots ==
    [index : {IntV(0)}, input : {NoneV, StrV(N_a), StrV(N_t)},
     presenter : {NoneV}, formatter : {NoneV}, formatter_params : {NoParams}]
OrderItemSlots ==
    [key : {StrV(N_k)}, input : {NoneV, StrV(N_a), StrV(N_t)},
     presenter : {NoneV}, formatter : {NoneV}, formatter_params : {NoParams}]

LineCases ==
    (SeqsUpTo(StructLineSlots, MaxSlots) \X StructContexts)
    \cup ({<<slot>> : slot \in SlotLineSlots} \X SlotContexts)
    \cup ([1..(MaxSlots + 1) -> OrderLineSlots] \X {CtxGood})

ItemCases ==
    (SeqsUpTo(StructItemSlots, MaxSlots) \X StructContexts)
    \cup ({<<slot>> : slot \in SlotItemSlots} \X SlotContexts)
    \cup ([1..(MaxSlots + 1) -> OrderItemSlots] \X {CtxGood})

(***************************************************************************)
(* The specification of the rendering calls.                               *)
(***************************************************************************)
Idle == [op |-> "idle"]

\* LayoutEngine(field_registry, layout_loader): with or without a registry,
\* with or without a loader, which may have parsed its files already
Engines ==
    {e \in [has_registry : BOOLEAN, has_loader : BOOLEAN, cache : {"unset", "loaded"}] :
        e.cache = "loaded" => e.has_loader}

Init ==
    /\ engine \in Engines
    /\ call = Idle

BuildLineStr ==
    /\ call.op = "idle"
    /\ \E c \in LineCases :
         \E r \in {build_line_str(engine, c[1], c[2])} :
             /\ call' = [op |-> "build_line_str", layout |-> c[1], context |-> c[2],
                         exc |-> r.exc, out |-> r.out, log |-> r.log, failed |-> r.failed,
                         before |-> engine]
             /\ engine' = r.eng

BuildDictStr ==
    /\ call.op = "idle"
    /\ \E c \in ItemCases :
         \E r \in {build_dict_str(engine, c[1], c[2])} :
             /\ call' = [op |-> "build_dict_str", layout |-> c[1], context |-> c[2],
                         exc |-> r.exc, out |-> r.out, log |-> r.log, failed |-> r.failed,
                         before |-> engine]
             /\ engine' = r.eng

\* the caller takes the result (or the exception) of the call
Return ==
    /\ call.op # "idle"
    /\ call' = Idle
    /\ UNCHANGED engine

Next == BuildLineStr \/ BuildDictStr \/ Return

Spec == Init /\ [][Next]_vars

(***************************************************************************)
(* The specification of the resolver calls: MethodCallParser.parse and the *)
(* getter built by _create_getter, on context_key strings made of a chain  *)
(* prefix followed by up to MaxTail free characters.                       *)
(***************************************************************************)
N_o == <<"o">>

KeyPrefixes == {<<>>, <<"o", ".">>, <<"o", ".", "m", "(">>}
TailChars == {"1", "-", ".", ")", "m", "(", ","}
Tails == SeqsUpTo(TailChars, MaxTail)
Keys == {prefix \o tail : prefix \in KeyPrefixes, tail \in Tails}

\* contexts of the resolver calls: the key o missing, a plain string, an
\* object whose method m returns, an object whose method m raises ValueError
GetterContexts ==
    {<<>>, (N_o :> StrV(<<"h", "i">>)), (N_o :> ObjV(1)), (N_o :> ObjV(2))}
GetterDefaults == {NoneV, IntV(0)}
GetterTransforms == {NoneV, StrV(S_int)}

\* argument tokens of method calls: a quoted string, integers, a float, the
\* keywords in several cases, a bare word, a padded token, and a token of
\* digits and a dash
MaxArgs == 3
S_qx == <<"'", "x", "'">>
ArgTokens ==
    {S_qx, <<"1">>, <<"-", "1">>, <<"1", ".", "5">>, S_true, <<"T", "r", "u", "e">>,
     <<"F", "A", "L", "S", "E">>, <<"N", "o", "n", "e">>, <<"x">>, <<" ", "1">>,
     <<"1", "-">>}
ArgLists == SeqsUpTo(ArgTokens, MaxArgs)

\* ",".join(tokens)
RECURSIVE JoinComma(_)
JoinComma(tokens) ==
    IF tokens = <<>> THEN <<>>
    ELSE IF Len(tokens) = 1 THEN tokens[1]
    ELSE tokens[1] \o <<",">> \o JoinComma(Tail(tokens))

CallKey(tokens) == <<"o", ".", "m", "(">> \o JoinComma(tokens) \o <<")">>
ArgKeys == {CallKey(tokens) : tokens \in ArgLists}

\* chains of attribute reads and method calls
S_abc == <<"a", ".", "b", ".", "c">>
S_abcd == <<"a", ".", "b", "(", ")", ".", "c", ".", "d", "(", ")">>
ChainKeys == {S_abc, S_abcd, <<"a", ".", "b", "(", "1", ")", ".", "c">>}

ParseKeys == Keys \cup ArgKeys \cup ChainKeys

InitGetter ==
    /\ engine = [has_registry |-> TRUE, has_loader |-> FALSE, cache |-> "unset"]
    /\ call = Idle

\* MethodCallParser.parse(context_key)
Parse ==
    /\ call.op = "idle"
    /\ \E key \in ParseKeys :
         \E r \in {parse(key)} :
             call' = [op |-> "parse", key |-> key, exc |-> r.exc, ops |-> r.ops,
                      steps |-> r.steps]
    /\ UNCHANGED engine

\* _create_getter(context_key, default, transform)(context)
CallGetter ==
    /\ call.op = "idle"
    /\ \E key \in Keys, context \in GetterContexts, default \in GetterDefaults,
          transform \in GetterTransforms :
         \E r \in {getter(_create_getter(StrV(key), default, transform), context)} :
             call' = [op |-> "getter", key |-> key, context |-> context,
                      default |-> default, transform |-> transform,
                      exc |-> r.exc, v |-> r.v]
    /\ UNCHANGED engine

NextGetter == Parse \/ CallGetter \/ Return

SpecGetter == InitGetter /\ [][NextGetter]_vars

(***************************************************************************)
(* The specification of the loop of MethodCallParser.parse, one iteration  *)
(* of the while loop per step, on the free strings and the chains.         *)
(***************************************************************************)
LoopKeys == Keys \cup ChainKeys

\* the call of parse(context_key): lines 72-74
ParseCall ==
    /\ call.op = "idle"
    /\ \E key \in LoopKeys :
         call' = [op |-> "parsing", key |-> key, remaining |-> key, first |-> TRUE,
                  operations |-> <<>>, exc |-> ""]
    /\ UNCHANGED engine

\* the texts the loop can be left with: the suffixes of the strings parsed
Remainders == UNION {{SubSeq(key, i, Len(key)) : i \in 1..Len(key)} : key \in LoopKeys}

\* what an iteration does on each remaining text, before and after the first
Advances == [remaining \in Remainders, first \in BOOLEAN |-> Advance(remaining, first)]

\* one iteration of `while remaining:` (lines 76-101), which may leave the
\* loop by break or by an exception of _parse_args
ParseIterate ==
    /\ call.op = "parsing"
    /\ call.remaining # <<>>
    /\ \E a \in {Advances[call.remaining, call.first]} :
         call' = [call EXCEPT !.op = IF a.stop THEN "parsed" ELSE "parsing",
                              !.remaining = a.remaining, !.first = a.first,
                              !.operations = IF a.stop THEN @ ELSE Append(@, a.op),
                              !.exc = a.exc]
    /\ UNCHANGED engine

\* the loop condition is false: return operations (line 103)
ParseExit ==
    /\ call.op = "parsing"
    /\ call.remaining = <<>>
    /\ call' = [call EXCEPT !.op = "parsed"]
    /\ UNCHANGED engine

\* the caller takes the operations (or the exception) of a finished parse
ParseReturn ==
    /\ call.op = "parsed"
    /\ call' = Idle
    /\ UNCHANGED engine

NextParse == ParseCall \/ ParseIterate \/ ParseExit \/ ParseReturn

\* a call of parse that was entered runs: its loop is not suspended for ever
SpecParse ==
    InitGetter /\ [][NextParse]_vars /\ WF_vars(ParseIterate) /\ WF_vars(ParseExit)

(***************************************************************************)
(* The specification of the registry: RegistryBuilder.build_from_config on *)
(* a configuration of the input x and a plain input a that reads the       *)
(* context key x, then the getter registered for x applied to a context.   *)
(***************************************************************************)
N_c == <<"c">>
S_raise == <<"r", "a", "i", "s", "e">>
S_use_default == <<"u", "s", "e", "_", "d", "e", "f", "a", "u", "l", "t">>

\* InputMapping(): every field at its default
InputMapping ==
    [context_key |-> NoneV, constant |-> NoneV, default |-> NoneV, transform |-> NoneV,
     operation |-> NoneV, sources |-> NoneV, multiply |-> NoneV, add |-> NoneV,
     divide |-> NoneV, type |-> NoneV, on_validation_error |-> NoneV,
     min_value |-> NoneV, max_value |-> NoneV, min_length |-> NoneV,
     max_length |-> NoneV, allowed_values |-> NoneV]

BuildDefaults == {NoneV, IntV(6)}

\* the validation fields of a mapping
Validations ==
    {[type |-> NoneV, on_validation_error |-> NoneV, min_value |-> NoneV,
      max_value |-> NoneV, min_length |-> NoneV, max_length |-> NoneV,
      allowed_values |-> NoneV]}
    \cup {[type |-> type, on_validation_error |-> StrV(S_raise), min_value |-> NoneV,
           max_value |-> NoneV, min_length |-> NoneV, max_length |-> NoneV,
           allowed_values |-> NoneV] : type \in {StrV(S_int), StrV(S_str)}}
    \cup {[type |-> NoneV, on_validation_error |-> strategy, min_value |-> min_value,
           max_value |-> max_value, min_length |-> NoneV, max_length |-> NoneV,
           allowed_values |-> NoneV] :
             strategy \in {StrV(S_raise), StrV(S_use_default)},
             min_value \in {NoneV, FloatV(2 * Scale)},
             max_value \in {NoneV, FloatV(0)}}
    \cup {[type |-> NoneV, on_validation_error |-> StrV(S_raise), min_value |-> NoneV,
           max_value |-> NoneV, min_length |-> min_length, max_length |-> max_length,
           allowed_values |-> allowed_values] :
             min_length \in {NoneV, IntV(2)}, max_length \in {NoneV, IntV(0)},
             allowed_values \in {NoneV, ValuesV(<<IntV(5)>>)}}

Validated(mapping, v) ==
    [mapping EXCEPT !.type = v.type, !.on_validation_error = v.on_validation_error,
                    !.min_value = v.min_value, !.max_value = v.max_value,
                    !.min_length = v.min_length, !.max_length = v.max_length,
                    !.allowed_values = v.allowed_values]

\* inputs without an operation
PlainMappings ==
    {Validated([InputMapping EXCEPT !.context_key = context_key, !.constant = constant,
                                    !.default = default, !.transform = transform], v) :
        context_key \in {NoneV, StrV(N_a)}, constant \in {NoneV, IntV(5)},
        default \in BuildDefaults, transform \in {NoneV, StrV(S_str)},
        v \in Validations}

\* the operation names of a configuration: the library, the operations the
\* builder does not have, and a name of neither
OperationNames ==
    OPERATIONS \cup {O_linear_transform, O_concat, O_split, O_substring, O_conditional,
                     O_format_number, O_ceil}
SourceLists ==
    {NoneV, NamesV(<<>>), NamesV(<<N_a>>), NamesV(<<N_a, N_b>>), NamesV(<<N_a, N_b, N_c>>)}

\* inputs with an operation
OperationMappings ==
    {[InputMapping EXCEPT !.operation = StrV(operation), !.sources = sources,
                          !.context_key = context_key, !.default = default,
                          !.multiply = multiply, !.divide = divide, !.add = add] :
        operation \in OperationNames, sources \in SourceLists,
        context_key \in {NoneV, StrV(N_a)}, default \in BuildDefaults,
        multiply \in {NoneV, FloatV(2 * Scale)},
        divide \in {NoneV, FloatV(0), FloatV(2 * Scale)},
        add \in {NoneV, FloatV(Scale)}}

\* contexts: each of the keys a, b, c, x absent or present
Entries(key, values) == {<<>>} \cup {key :> v : v \in values}
BuildContexts ==
    {a @@ b @@ c @@ x :
        a \in Entries(N_a, {IntV(0), IntV(1), FloatV(Scale + 500), StrV(N_x), BoolV(TRUE)}),
        b \in Entries(N_b, {IntV(0), IntV(2), NoneV}),
        c \in Entries(N_c, {IntV(3)}),
        x \in Entries(N_x, {IntV(9)})}

\* the configuration of the input x with its companion input a
Config(mapping) == (N_x :> mapping) @@ (N_a :> Mapping(StrV(N_x), NoneV, NoneV))

InitBuild ==
    /\ engine = [has_registry |-> TRUE, has_loader |-> FALSE, cache |-> "unset"]
    /\ call = Idle

\* RegistryBuilder.build_from_config(loader=...)
BuildFromConfig ==
    /\ call.op = "idle"
    /\ \E mapping \in PlainMappings \cup OperationMappings :
         \E r \in {build_from_config(Config(mapping))} :
             call' = [op |-> "built", mapping |-> mapping, exc |-> r.exc,
                      registry |-> r.registry]
    /\ UNCHANGED engine

\* registry.get("x")(context) on the registry just built
Resolve ==
    /\ call.op = "built"
    /\ call.exc = ""
    /\ \E context \in BuildContexts :
         \E r \in {call_getter(registry_get(call.registry, N_x), context)} :
             call' = [op |-> "resolved", mapping |-> call.mapping, context |-> context,
                      exc |-> r.exc, v |-> r.v]
    /\ UNCHANGED engine

NextBuild == BuildFromConfig \/ Resolve \/ Return

SpecBuild == InitBuild /\ [][NextBuild]_vars

(***************************************************************************)
(* The specification of the formatter calls: the numeric formatters of the *)
(* registry applied to a value and keyword parameters.                     *)
(***************************************************************************)
Near == 3
S_long == <<"l", "o", "n", "g">>

\* numbers of seconds around the bucket limits of relative_time
Seconds ==
    UNION {(limit - Near)..(limit + Near) : limit \in {0, 60, 75, 3600, 86400, 2 * 86400}}

\* values handed to a formatter: null, texts that are and are not numbers,
\* a bool, an object, numbers
FormatValues ==
    {NoneV, StrV(<<"h", "i">>), StrV(<<"1", "2">>), EmptyStr, BoolV(TRUE), ObjV(1),
     FloatV(1234 * Scale + 500), FloatV(125), FloatV(0 - 2500), IntV(1234567)}
    \cup {IntV(seconds) : seconds \in Seconds}

PriceParams ==
    {symbol @@ decimals @@ thousands_sep @@ symbol_position :
        symbol \in Entries("symbol", {StrV(<<"$">>), EmptyStr}),
        decimals \in Entries("decimals", {IntV(0), IntV(2), IntV(3)}),
        thousands_sep \in Entries("thousands_sep", {EmptyStr, StrV(<<",">>), StrV(<<".">>)}),
        symbol_position \in Entries("symbol_position", {StrV(S_suffix), StrV(S_prefix)})}

NumberParams ==
    {prefix @@ suffix @@ decimals @@ thousands_sep :
        prefix \in Entries("prefix", {StrV(<<">">>)}),
        suffix \in Entries("suffix", {StrV(<<"!">>)}),
        decimals \in Entries("decimals", {IntV(1)}),
        thousands_sep \in Entries("thousands_sep", {StrV(<<",">>)})}

TimeParams == Entries("format", {StrV(S_short), StrV(S_long)})

InitFormat ==
    /\ engine = [has_registry |-> TRUE, has_loader |-> FALSE, cache |-> "unset"]
    /\ call = Idle

Formatted(fn, value, kw, r) ==
    [op |-> "format", fn |-> fn, value |-> value, kw |-> kw, exc |-> r.exc, v |-> r.v]

\* FormatterRegistry._format_price(value, **kwargs)
FormatPrice ==
    /\ call.op = "idle"
    /\ \E value \in FormatValues, kw \in PriceParams :
         \E r \in {_format_price(value, kw)} : call' = Formatted(S_price, value, kw, r)
    /\ UNCHANGED engine

\* FormatterRegistry._format_number(value, **kwargs)
FormatNumber ==
    /\ call.op = "idle"
    /\ \E value \in FormatValues, kw \in NumberParams :
         \E r \in {_format_number(value, kw)} : call' = Formatted(S_number, value, kw, r)
    /\ UNCHANGED engine

\* FormatterRegistry._format_datetime(value, **kwargs)
FormatDatetime ==
    /\ call.op = "idle"
    /\ \E value \in FormatValues, kw \in TimeParams :
         \E r \in {_format_datetime(value, kw)} :
             call' = Formatted(S_datetime, value, kw, r)
    /\ UNCHANGED engine

\* FormatterRegistry._format_relative_time(value, **kwargs)
FormatRelativeTime ==
    /\ call.op = "idle"
    /\ \E value \in FormatValues, kw \in TimeParams :
         \E r \in {_format_relative_time(value, kw)} :
             call' = Formatted(S_relative_time, value, kw, r)
    /\ UNCHANGED engine

NextFormat == FormatPrice \/ FormatNumber \/ FormatDatetime \/ FormatRelativeTime \/ Return

SpecFormat == InitFormat /\ [][NextFormat]_vars

(***************************************************************************)
(* The specification of the process-wide engine: the module variable       *)
(* _global_layout_engine of engine.py and the calls of get_layout_engine.  *)
(* Here the variable engine holds the state of the module: global is None  *)
(* or the engine object, constructed counts the LayoutEngine objects that  *)
(* get_layout_engine made, calls the calls made so far.  An engine object  *)
(* is [id, field_registry]; registries are the objects 1..MaxRegistries.   *)
(***************************************************************************)
MaxRegistries == 3
MaxCalls == 8

RegistryArgs == {NoneV} \cup {ObjV(r) : r \in 1..MaxRegistries}

\* LayoutEngine(field_registry) (lines 69-71), the id-th object constructed
LayoutEngine(id, field_registry) == [id |-> id, field_registry |-> field_registry]

\* a get_layout_engine that builds a new engine whenever a registry is passed
GetLayoutEngineReplaces(module, field_registry) ==
    IF field_registry # NoneV
    THEN [exc |-> "",
          v |-> LayoutEngine(module.constructed + 1, field_registry),
          global |-> LayoutEngine(module.constructed + 1, field_registry),
          constructed |-> module.constructed + 1]
    ELSE IF module.global = NoneV
    THEN [exc |-> "ValueError", v |-> NoneV, global |-> NoneV,
          constructed |-> module.constructed]
    ELSE [exc |-> "", v |-> module.global, global |-> module.global,
          constructed |-> module.constructed]

\* get_layout_engine(field_registry) (lines 327-332): the result or the
\* exception, the global and the number of engines constructed afterwards
get_layout_engine(module, field_registry) ==
    LET Created(global, constructed) ==
            IF global = NoneV
            THEN [exc |-> "ValueError", v |-> NoneV, global |-> global,
                  constructed |-> constructed]
            ELSE [exc |-> "", v |-> global, global |-> global,
                  constructed |-> constructed]
    IN  IF module.global = NoneV /\ field_registry # NoneV
        THEN Created(LayoutEngine(module.constructed + 1, field_registry),
                     module.constructed + 1)
        ELSE Created(module.global, module.constructed)

\* the module as imported: _global_layout_engine = None (line 297)
InitGlobal ==
    /\ engine = [global |-> NoneV, constructed |-> 0, calls |-> 0]
    /\ call = Idle

GetLayoutEngine ==
    /\ call.op = "idle"
    /\ engine.calls < MaxCalls
    /\ \E field_registry \in RegistryArgs :
         \E r \in {get_layout_engine(engine, field_registry)} :
             /\ call' = [op |-> "get_layout_engine", field_registry |-> field_registry,
                         exc |-> r.exc, v |-> r.v, before |-> engine.global]
             /\ engine' = [global |-> r.global, constructed |-> r.constructed,
                           calls |-> engine.calls + 1]

NextGlobal == GetLayoutEngine \/ Return

SpecGlobal == InitGlobal /\ [][NextGlobal]_vars

(***************************************************************************)
(* The specification of the loader's cache: LayoutLoader.load and the      *)
(* accessors of loader.py on one loader.  Here the variable engine holds   *)
(* the loader: cache is self._layouts_config, None or the configuration    *)
(* parsed.  Each call finds the files in some state: missing, invalid, or  *)
(* valid with one of MaxVersions contents; content k defines the first k   *)
(* of the names a, b, c, k in each section and the context provider k.     *)
(***************************************************************************)
MaxVersions == 2

SectionNames == <<N_a, N_b, N_c, N_k>>
LookupNames == {SectionNames[i] : i \in 1..(MaxVersions + 1)}
FileStates ==
    {[status |-> "missing", version |-> 0], [status |-> "invalid", version |-> 0]}
    \cup {[status |-> "valid", version |-> k] : k \in 1..MaxVersions}

\* LayoutsConfig(**data) of the files' content k
LayoutsConfig(k) == [version |-> k, names |-> {SectionNames[i] : i \in 1..k}]
Caches == {NoneV} \cup {LayoutsConfig(k) : k \in 1..MaxVersions}

\* what an accessor answers from a configuration: the dump of the entry
Entry(config, section, name) ==
    [section |-> section, name |-> name, version |-> config.version]

\* load() (lines 365-381): the exception or the configuration returned, the
\* cache afterwards, and whether the files were read (parsed)
load(cache, files) ==
    IF files.status = "missing"
    THEN [exc |-> "FileNotFoundError", v |-> NoneV, cache |-> cache, parsed |-> FALSE]
    ELSE IF files.status = "invalid"
    THEN [exc |-> "ValidationError", v |-> NoneV, cache |-> cache, parsed |-> TRUE]
    ELSE [exc |-> "", v |-> LayoutsConfig(files.version),
          cache |-> LayoutsConfig(files.version), parsed |-> TRUE]

\* an accessor preamble that reads the files at every call
EnsureLoadedAlways(cache, files) == load(cache, files)

\* `if self._layouts_config is None: self.load()`, the first lines of every
\* accessor (469-470, 538-539, 568-569, 594-595, 622-623)
EnsureLoaded(cache, files) ==
    IF cache = NoneV THEN load(cache, files)
    ELSE [exc |-> "", v |-> cache, cache |-> cache, parsed |-> FALSE]

\* the body of an accessor after the preamble: get_layout raises ValueError
\* for an unknown name (474-475), get_formatter_preset and
\* get_presenter_config return None for one (543-547, 627-631),
\* get_input_mappings and get_context_provider take no name
Accessor(cache, files, section, name) ==
    LET Answer(l, v) == [exc |-> "", v |-> v, cache |-> l.cache, parsed |-> l.parsed]
        Body(l) ==
            IF l.exc # "" THEN l
            ELSE IF section \in {"inputs", "context_provider"}
            THEN Answer(l, Entry(l.cache, section, <<>>))
            ELSE IF name \in l.cache.names
            THEN Answer(l, Entry(l.cache, section, name))
            ELSE IF section = "layouts"
            THEN [exc |-> "ValueError", v |-> NoneV, cache |-> l.cache,
                  parsed |-> l.parsed]
            ELSE Answer(l, NoneV)
    IN  Body(EnsureLoaded(cache, files))

\* LayoutLoader(config_path): self._layouts_config = None (line 330)
InitLoader ==
    /\ engine = [cache |-> NoneV]
    /\ call = Idle

LoaderCall(op, files, name, r) ==
    [op |-> op, files |-> files, name |-> name, exc |-> r.exc, v |-> r.v,
     parsed |-> r.parsed, before |-> engine.cache]

Load ==
    /\ call.op = "idle"
    /\ \E files \in FileStates :
         \E r \in {load(engine.cache, files)} :
             /\ call' = LoaderCall("load", files, <<>>, r)
             /\ engine' = [cache |-> r.cache]

GetLayout ==
    /\ call.op = "idle"
    /\ \E files \in FileStates, layout_name \in LookupNames :
         \E r \in {Accessor(engine.cache, files, "layouts", layout_name)} :
             /\ call' = LoaderCall("get_layout", files, layout_name, r)
             /\ engine' = [cache |-> r.cache]

GetFormatterPreset ==
    /\ call.op = "idle"
    /\ \E files \in FileStates, preset_name \in LookupNames :
         \E r \in {Accessor(engine.cache, files, "formatters", preset_name)} :
             /\ call' = LoaderCall("get_formatter_preset", files, preset_name, r)
             /\ engine' = [cache |-> r.cache]

GetPresenterConfig ==
    /\ call.op = "idle"
    /\ \E files \in FileStates, presenter_name \in LookupNames :
         \E r \in {Accessor(engine.cache, files, "presenters", presenter_name)} :
             /\ call' = LoaderCall("get_presenter_config", files, presenter_name, r)
             /\ engine' = [cache |-> r.cache]

GetInputMappings ==
    /\ call.op = "idle"
    /\ \E files \in FileStates :
         \E r \in {Accessor(engine.cache, files, "inputs", <<>>)} :
             /\ call' = LoaderCall("get_input_mappings", files, <<>>, r)
             /\ engine' = [cache |-> r.cache]

GetContextProvider ==
    /\ call.op = "idle"
    /\ \E files \in FileStates :
         \E r \in {Accessor(engine.cache, files, "context_provider", <<>>)} :
             /\ call' = LoaderCall("get_context_provider", files, <<>>, r)
             /\ engine' = [cache |-> r.cache]

NextLoader ==
    \/ Load \/ GetLayout \/ GetFormatterPreset \/ GetPresenterConfig
    \/ GetInputMappings \/ GetContextProvider \/ Return

SpecLoader == InitLoader /\ [][NextLoader]_vars

(***************************************************************************)
(* The specification of the render-inputs command (render_inputs of        *)
(* cli_app/commands/rendering.py and of cli.py, the same loop): the inputs *)
(* a, b and c are configured, each as a plain input reading a context key  *)
(* or as the operation add over two sources; the loop over inputs_to_show  *)
(* runs one iteration per step.                                            *)
(***************************************************************************)
RenderNames == {N_a, N_b, N_c}

\* the order of Python's sorted() on names made of lower-case letters
Rank(c) == CHOOSE i \in DOMAIN LowerAZ : LowerAZ[i] = c
RECURSIVE StrLess(_, _)
StrLess(p, q) ==
    IF q = <<>> THEN FALSE
    ELSE IF p = <<>> THEN TRUE
    ELSE IF Head(p) # Head(q) THEN Rank(Head(p)) < Rank(Head(q))
    ELSE StrLess(Tail(p), Tail(q))

\* sorted(names)
RECURSIVE Sorted(_)
Sorted(names) ==
    IF names = {} THEN <<>>
    ELSE LET first == CHOOSE n \in names : \A other \in names \ {n} : StrLess(n, other)
         IN  <<first>> \o Sorted(names \ {first})

RenderSources == {<<N_a, N_b>>, <<N_b, N_c>>, <<N_a, N_c>>, <<N_p, N_x>>}
RenderDefault == IntV(0 - 1)
RenderMappings ==
    {[InputMapping EXCEPT !.context_key = StrV(key)] : key \in {N_p, N_x}}
    \cup {[InputMapping EXCEPT !.operation = StrV(O_add), !.sources = NamesV(sources),
                               !.default = RenderDefault] : sources \in RenderSources}
RenderConfigs == [RenderNames -> RenderMappings]
RenderContexts == {(N_p :> IntV(2)) @@ (N_x :> IntV(5)), N_p :> IntV(2)}

\* the names a layout given with --layout references (all of them without one)
Referenced == {RenderNames, {N_a}, {N_a, N_c}}

\* inputs_to_show (lines 119-165 of rendering.py)
inputs_to_show(input_mappings, referenced) ==
    Sorted({name \in DOMAIN input_mappings : name \in referenced})

\* the body of the loop for one input (lines 174-181 of rendering.py): the
\* exception of the getter or the value written under the input's name
ResolveInputValue(registry, input_mappings, input_name, evaluation_context) ==
    IF registry # <<>> /\ has_field(registry, input_name)
    THEN call_getter(registry_get(registry, input_name), evaluation_context)
    ELSE IF input_name \in DOMAIN evaluation_context
    THEN Ret(evaluation_context[input_name])
    ELSE Ret(input_mappings[input_name].default)

InitInputs ==
    /\ engine = [has_registry |-> TRUE, has_loader |-> TRUE, cache |-> "loaded"]
    /\ call = Idle

\* the command up to the loop: inputs_to_show, the registry and
\* evaluation_context = dict(context) (lines 105-171)
RenderInputs ==
    /\ call.op = "idle"
    /\ \E input_mappings \in RenderConfigs, context \in RenderContexts,
          referenced \in Referenced :
         \E built \in {build_from_config(input_mappings)} :
             call' = [op |-> "render_inputs", input_mappings |-> input_mappings,
                      context |-> context, registry |-> built.registry,
                      todo |-> inputs_to_show(input_mappings, referenced),
                      order |-> <<>>, evaluation_context |-> context,
                      results |-> <<>>, exc |-> built.exc]
    /\ UNCHANGED engine

\* one iteration of `for input_name in inputs_to_show`
ResolveInput ==
    /\ call.op = "render_inputs"
    /\ call.exc = ""
    /\ call.todo # <<>>
    /\ \E r \in {ResolveInputValue(call.registry, call.input_mappings, Head(call.todo),
                                   call.evaluation_context)} :
         call' = IF r.exc # "" THEN [call EXCEPT !.exc = r.exc]
                 ELSE [call EXCEPT
                         !.todo = Tail(@),
                         !.order = Append(@, Head(call.todo)),
                         !.evaluation_context = (Head(call.todo) :> r.v) @@ @,
                         !.results = (Head(call.todo) :> r.v) @@ @]
    /\ UNCHANGED engine

\* the loop is over (or an exception left it): the results are printed
PrintResults ==
    /\ call.op = "render_inputs"
    /\ call.exc # "" \/ call.todo = <<>>
    /\ call' = [call EXCEPT !.op = "rendered"]
    /\ UNCHANGED engine

\* the command returns
Rendered ==
    /\ call.op = "rendered"
    /\ call' = Idle
    /\ UNCHANGED engine

NextInputs == RenderInputs \/ ResolveInput \/ PrintResults \/ Rendered

SpecInputs == InitInputs /\ [][NextInputs]_vars

(***************************************************************************)
(* Properties of the rendering calls.  They are stated on the record of    *)
(* the call in progress: its layout, context and engine (before), what it  *)
(* returned (out) or raised (exc), the slot it failed in (failed) and one   *)
(* event per slot that was rendered (log).                                 *)
(***************************************************************************)
IsLines  == call.op = "build_line_str"
IsRender == call.op \in {"build_line_str", "build_dict_str"}

LineSlot(index, input, presenter, formatter, formatter_params) ==
    [index |-> index, input |-> input, presenter |-> presenter,
     formatter |-> formatter, formatter_params |-> formatter_params]

ItemSlot(key, input, presenter, formatter, formatter_params) ==
    [key |-> key, input |-> input, presenter |-> presenter,
     formatter |-> formatter, formatter_params |-> formatter_params]

\* the index or key configured for a slot of the layout
Place(slot) == IF IsLines THEN slot.index ELSE slot.key

\* where event i was written: a list position or a key
Target(i) ==
    IF IsLines THEN call.log[i].at ELSE call.layout[call.log[i].slot].key.s

\* event i wrote the output and no later event wrote over it
Stands(i) ==
    /\ call.exc = ""
    /\ call.log[i].placed
    /\ \A j \in (i + 1)..Len(call.log) : ~(call.log[j].placed /\ Target(j) = Target(i))

\* the string of the output that event i wrote
Shown(i) ==
    IF IsLines THEN call.out[call.log[i].at + 1]
    ELSE call.out[call.layout[call.log[i].slot].key.s]

\* str(value) if value is not None else ""
Stringify(v) == IF v = NoneV THEN <<>> ELSE PyStr(v)

\* C1: for every lines layout, build_line_str returns an array whose length is
\* (largest configured slot index) + 1, and every index that no rendered slot
\* targets holds the empty string.  (Renders aborted by a failing slot, the
\* subject of C2, are set aside.)
C1_LinesLength ==
    (IsLines /\ call.exc # "ValueError") =>
        LET configured == {call.layout[k].index.n :
                             k \in {j \in DOMAIN call.layout :
                                      call.layout[j].index # NoneV}}
        IN  /\ call.exc = ""
            /\ configured # {} => Len(call.out) = Max(configured) + 1
            /\ \A i \in 0..(Len(call.out) - 1) :
                 (\A e \in DOMAIN call.log : call.layout[call.log[e].slot].index.n # i)
                     => call.out[i + 1] = <<>>

\* C1, the failing input: slots at indices 1 and -2 give a list whose entry 0,
\* which no slot targets, is filled
C1_Failing ==
    /\ IsLines
    /\ call.layout = <<LineSlot(IntV(1), StrV(N_a), NoneV, NoneV, NoParams),
                       LineSlot(IntV(0 - 2), StrV(N_a), NoneV, NoneV, NoParams)>>
    /\ call.exc = ""
    /\ call.out = << <<"1">>, <<"1">> >>

\* C1 on layouts without a negative index: the length is the largest
\* configured index + 1 and the indices no rendered slot targets hold ""
C1_OnNaturalIndices ==
    (IsLines /\ call.exc = ""
     /\ \A k \in DOMAIN call.layout :
          call.layout[k].index # NoneV => call.layout[k].index.n >= 0) =>
        LET configured == {call.layout[k].index.n :
                             k \in {j \in DOMAIN call.layout :
                                      call.layout[j].index # NoneV}}
        IN  /\ configured # {} => Len(call.out) = Max(configured) + 1
            /\ \A i \in 0..(Len(call.out) - 1) :
                 (\A e \in DOMAIN call.log : call.layout[call.log[e].slot].index.n # i)
                     => call.out[i + 1] = <<>>

WithoutSlot(layout, k) == SubSeq(layout, 1, k - 1) \o SubSeq(layout, k + 1, Len(layout))

Rerun(layout) ==
    IF IsLines THEN build_line_str(call.before, layout, call.context)
    ELSE build_dict_str(call.before, layout, call.context)

\* slot k is processed and its input resolution or its formatting fails
SlotFails(k) ==
    /\ Place(call.layout[k]) # NoneV
    /\ ProcessSlot(call.before, call.layout[k], call.context).exc # ""

\* the other slots have the strings they have in the render of the layout
\* without slot k
SameElsewhere(k) ==
    LET other == Rerun(WithoutSlot(call.layout, k))
    IN  /\ other.exc = ""
        /\ IF IsLines
           THEN \A i \in (DOMAIN call.out) \cap (DOMAIN other.out) :
                    i # call.layout[k].index.n + 1 => call.out[i] = other.out[i]
           ELSE \A key \in DOMAIN other.out :
                    key \in DOMAIN call.out /\ call.out[key] = other.out[key]

\* C2: a single bad slot never aborts a render: when the input resolution or the
\* formatting of one slot fails, build_line_str / build_dict_str still return
\* and every other slot has the string it has without the bad slot
C2_BadSlotNeverAborts ==
    IsRender =>
        \A k \in DOMAIN call.layout :
            (SlotFails(k) /\ \A j \in DOMAIN call.layout \ {k} : ~SlotFails(j))
                => (call.exc = "" /\ SameElsewhere(k))

\* C2, the failing input: the second slot's input t is int(context["s"]) and
\* the context holds s = "hi"
C2_Failing ==
    /\ IsLines
    /\ call.layout = <<LineSlot(IntV(0), StrV(N_a), NoneV, NoneV, NoParams),
                       LineSlot(IntV(1), StrV(N_t), NoneV, NoneV, NoParams)>>
    /\ call.context = CtxBad
    /\ call.before.has_registry
    /\ call.exc = "ValueError"
    /\ call.failed = 2

\* C3: the resolver built for a context_key input never raises, for any
\* context and any context_key string; with a missing context key it returns
\* the mapping's default or null
C3_ResolverNeverRaises ==
    call.op = "getter" =>
        /\ call.exc = ""
        /\ call.context = <<>> => call.v \in {call.default, NoneV}

\* C3, the failing input: the argument token "1-" passes the digit test of
\* _parse_args and int("1-") raises ValueError before the try block of getter
C3_Failing ==
    /\ call.op = "getter"
    /\ call.key = <<"o", ".", "m", "(", "1", "-", ")">>
    /\ call.context = <<>>
    /\ call.exc = "ValueError"

\* C4: when a slot names a presenter the loader defines, the presenter's
\* formatter and formatter_params are the ones used, whatever the slot has
\* inline, and the input used is the slot's own input if it has one and the
\* presenter's input otherwise; for line slots and dict items alike
C4_PresenterPrecedence ==
    (IsRender /\ call.before.has_loader) =>
        \A i \in DOMAIN call.log :
            LET e == call.log[i]
                slot == call.layout[e.slot]
            IN  (slot.presenter # NoneV /\ slot.presenter.s \in DOMAIN Presenters) =>
                    LET presenter == Presenters[slot.presenter.s]
                        input == IF slot.input # NoneV THEN slot.input
                                 ELSE presenter.input
                    IN  /\ e.formatter = presenter.formatter
                        /\ e.params = presenter.formatter_params
                        /\ e.input = input
                        /\ Stands(i) =>
                             Shown(i) = Stringify(
                                 _format_value(call.before,
                                     _get_input_value(call.before, input, call.context).v,
                                     presenter.formatter, presenter.formatter_params,
                                     call.context).v)

\* C4, its case: a dict item with input a, an inline formatter price and the
\* presenter p (input b, formatter text, prefix ">") renders a with text
C4_Witness ==
    /\ call.op = "build_dict_str"
    /\ call.before.has_loader
    /\ call.layout = <<ItemSlot(StrV(N_k), StrV(N_a), StrV(N_p), StrV(S_price), NoParams)>>
    /\ call.context = CtxAB
    /\ call.out = (N_k :> <<">", "1">>)

\* C5: the value of a slot's input name is the result of the registry's
\* resolver when the registry has the name, otherwise the raw context entry of
\* that name when the context has it, otherwise null; a registry entry shadows
\* a context key of the same name
C5_RegistryThenContext ==
    IsRender =>
        \A i \in DOMAIN call.log :
            LET e == call.log[i]
                name == e.input.s
                expected ==
                    IF call.before.has_registry /\ name \in DOMAIN Registry
                    THEN getter(Registry[name], call.context).v
                    ELSE IF name \in DOMAIN call.context THEN call.context[name]
                    ELSE NoneV
            IN  /\ e.value = expected
                /\ (Stands(i) /\ ~e.formatted) => Shown(i) = Stringify(expected)

\* C5, its case: the input r is in the registry (context_key a) and in the
\* context (r = 9, a = "hi"): the slot shows the registry's "hi"
C5_Witness ==
    /\ IsLines
    /\ call.before.has_registry
    /\ call.layout = <<LineSlot(IntV(0), StrV(N_r), NoneV, NoneV, NoParams)>>
    /\ call.context = CtxFull
    /\ call.out = << <<"h", "i">> >>

\* a slot with no input and no usable presenter
Unusable(slot) ==
    /\ slot.input = NoneV
    /\ \/ slot.presenter = NoneV
       \/ ~call.before.has_loader
       \/ slot.presenter.s \notin DOMAIN Presenters

UnknownNamed(slot) ==
    /\ slot.presenter = NoneV
    /\ slot.input # NoneV
    /\ Place(slot) # NoneV
    /\ slot.formatter # NoneV
    /\ slot.formatter.s \notin BuiltinFormatters
    /\ slot.formatter.s \notin DOMAIN FormatterPresets
    /\ "type" \notin DOMAIN slot.formatter_params

C9_NullRendersEmpty ==
    IsRender =>
        \A i \in DOMAIN call.log :
            LET e == call.log[i]
            IN  (e.value = NoneV /\ Stands(i)
                 /\ (e.formatted => (e.formatter.s \in BuiltinFormatters
                                     /\ e.fn = e.formatter.s)))
                    => Shown(i) = <<>>

\* C9, the failing input: the input z is in no registry and no context and the
\* formatter text_uppercase renders it "NONE"
C9_Failing ==
    /\ IsLines
    /\ ~call.before.has_loader
    /\ call.layout = <<LineSlot(IntV(0), StrV(N_z), NoneV, StrV(S_text_uppercase),
                                NoParams)>>
    /\ call.context = Ctx0
    /\ call.out = << <<"N", "O", "N", "E">> >>

\* C10: a slot with formatter template, template "{{a}} and {{b}}" and fields
\* [a, b], rendered against a context with a = 1 and b = 2, yields "1 and 2"
C10_TemplateRoundTrip ==
    (IsLines
     /\ call.layout = <<LineSlot(IntV(0), StrV(N_a), NoneV, StrV(S_template),
                                 TemplateParams)>>
     /\ call.context = CtxAB) =>
        /\ call.exc = ""
        /\ call.out = << <<"1", " ", "a", "n", "d", " ", "2">> >>

\* C10, the failing input: no formatter is registered under `template`, the
\* text formatter renders the slot's own value
C10_Failing ==
    /\ IsLines
    /\ call.layout = <<LineSlot(IntV(0), StrV(N_a), NoneV, StrV(S_template),
                                TemplateParams)>>
    /\ call.context = CtxAB
    /\ call.log[1].fn = S_text
    /\ call.out = << <<"1">> >>

(***************************************************************************)
(* Properties of the resolver calls, stated on the record of the call: the *)
(* context_key string (key), the operations parse returned (ops) or the    *)
(* exception it raised (exc), and for a getter call its context, default,  *)
(* transform and result (v).                                               *)
(***************************************************************************)
\* the segments of a chain between its dots
RECURSIVE Segments(_)
Segments(q) ==
    IF ~Contains(q, ".") THEN <<q>>
    ELSE <<SubSeq(q, 1, IndexOf(q, ".") - 1)>>
         \o Segments(SubSeq(q, IndexOf(q, ".") + 1, Len(q)))

IsIdentifier(q) == q # <<>> /\ \A i \in DOMAIN q : IsWord(q[i])
IsCallSegment(q) ==
    LET w == WordPrefixLen(q)
    IN  w >= 1 /\ Len(q) >= w + 2 /\ q[w + 1] = "(" /\ q[Len(q)] = ")"
CallName(q) == SubSeq(q, 1, WordPrefixLen(q))
CallArgs(q) == SubSeq(q, WordPrefixLen(q) + 2, Len(q) - 1)

\* a chain whose later segments are identifiers or calls with arguments that
\* parse
WellFormedChain(key) ==
    /\ key # <<>>
    /\ \A i \in 2..Len(Segments(key)) :
         LET seg == Segments(key)[i]
         IN  \/ IsIdentifier(seg)
             \/ IsCallSegment(seg) /\ _parse_args(CallArgs(seg)).exc = ""

\* the operations the chain stands for, segment by segment
ChainOps(key) ==
    LET segs == Segments(key)
    IN  [i \in 1..Len(segs) |->
            IF i = 1 THEN Op("key", segs[1], <<>>)
            ELSE IF IsIdentifier(segs[i]) THEN Op("attr", segs[i], <<>>)
            ELSE Op("method", CallName(segs[i]), _parse_args(CallArgs(segs[i])).args)]

Literal(token) ==
    IF Len(token) >= 2 /\ Head(token) = token[Len(token)] /\ Head(token) \in {"'", "\""}
    THEN StrV(SubSeq(token, 2, Len(token) - 1))
    ELSE IF IsIntText(token) THEN IntV(IntOfText(token))
    ELSE IF Contains(token, ".") /\ IsFloatText(token) THEN FloatV(MilliOfText(token))
    ELSE IF StrLower(token) \in {S_true, S_false} THEN BoolV(StrLower(token) = S_true)
    ELSE IF StrLower(token) = S_none THEN NoneV
    ELSE StrV(token)

\* the argument text of a key "o.m(...)" and its literals
ArgText(key) == SubSeq(key, 5, Len(key) - 1)
Literals(text) ==
    IF StrStrip(text) = <<>> THEN <<>>
    ELSE [i \in 1..Len(SplitComma(text)) |-> Literal(StrStrip(SplitComma(text)[i]))]

\* C12: every comma-separated argument token of a method call is classified
\* into exactly one literal and parsing it never fails
C12_EveryTokenClassified ==
    call.op = "parse" /\ call.key \in ArgKeys =>
        /\ call.exc = ""
        /\ call.ops = <<Op("key", N_o, <<>>),
                        Op("method", N_m, Literals(ArgText(call.key)))>>

\* C12, the failing input: the token "1-" is all digits once its dash is
\* removed, so int("1-") is called and raises ValueError out of parse
C12_Failing ==
    /\ call.op = "parse"
    /\ call.key = CallKey(<< <<"1", "-">> >>)
    /\ call.exc = "ValueError"
    /\ call.ops = <<Op("key", N_o, <<>>)>>

\* a replay of the operations fails when the key lookup finds nothing or
\* null, an attribute is missing, or a method call raises anything at all
RECURSIVE ReplayFails(_, _, _)
ReplayFails(operations, value, context) ==
    LET o == Head(operations)
        Then(got) == got.exc # "" \/ ReplayFails(Tail(operations), got.v, context)
        Called(method) == method.exc # "" \/ Then(CallValue(method.v, o.args))
    IN  IF operations = <<>> THEN FALSE
        ELSE CASE o.op = "key" ->
                      \/ DictGet(context, o.name, NoneV) = NoneV
                      \/ ReplayFails(Tail(operations), DictGet(context, o.name, NoneV),
                                     context)
               [] o.op = "attr"   -> Then(GetAttr(value, o.name))
               [] o.op = "method" -> Called(GetAttr(value, o.name))

\* C13: replaying the parsed operations yields the mapping's default on every
\* failure: a key that is absent or null, a missing attribute, a method
\* called with the wrong number of arguments, a method that raises
C13_FailureYieldsDefault ==
    call.op = "getter" /\ parse(call.key).exc = ""
    /\ ReplayFails(parse(call.key).ops, NoneV, call.context) =>
        call.exc = "" /\ call.v = call.default

\* C13, the failing input: the method m of the context object raises
\* ValueError, which the except clause of getter does not list
C13_Failing ==
    /\ call.op = "getter"
    /\ call.key = <<"o", ".", "m", "(", "1", ")">>
    /\ call.context = (N_o :> ObjV(2))
    /\ call.default = IntV(0)
    /\ call.exc = "ValueError"

(***************************************************************************)
(* Properties of the registry, stated on the record of the call: the       *)
(* mapping of the input x, the exception of the build (exc of a built      *)
(* record), the context and the result of resolving x (exc, v).            *)
(***************************************************************************)
IsResolved == call.op = "resolved"

\* C14: an input whose mapping sets `constant` resolves to that constant,
\* for every context, once the registry is built from the configuration
C14_ConstantResolves ==
    IsResolved /\ call.mapping.constant # NoneV /\ call.mapping.transform = NoneV =>
        call.exc = "" /\ call.v = call.mapping.constant

\* C14, the failing input: the builder never reads `constant`; the input x
\* with constant 5 is looked up in the context under its own name and
\* resolves to the default
C14_Failing ==
    /\ IsResolved
    /\ call.mapping = [InputMapping EXCEPT !.constant = IntV(5)]
    /\ call.context = <<>>
    /\ call.v = NoneV

\* C15: an input whose mapping sets none of constant, context_key and
\* operation resolves to its default for every context, also for a context
\* that has a key equal to the input's own name
C15_NothingSetYieldsDefault ==
    IsResolved /\ call.mapping.constant = NoneV /\ call.mapping.context_key = NoneV
    /\ call.mapping.operation = NoneV =>
        call.exc = "" /\ call.v = call.mapping.default

\* C15, the failing input: without a context_key the builder looks the input
\* up under its own name, so the context value of x is returned
C15_Failing ==
    /\ IsResolved
    /\ call.mapping = [InputMapping EXCEPT !.default = IntV(6)]
    /\ call.context = (N_x :> IntV(9))
    /\ call.v = IntV(9)

\* the context holds an int or a float (a bool is an int) under the key
IsNumberAt(context, key) ==
    key \in DOMAIN context /\ context[key].t \in {"int", "float", "bool"}

DividesByZero ==
    /\ call.mapping.operation = StrV(O_divide)
    /\ HasSources(call.mapping)
    /\ Len(call.mapping.sources.s) = 2
    /\ \A i \in 1..2 : IsNumberAt(call.context, call.mapping.sources.s[i])
    /\ ToFloat(call.context[call.mapping.sources.s[2]]).m = 0

\* linear_transform with a divide parameter of zero
LinearDividesByZero ==
    /\ call.mapping.operation = StrV(O_linear_transform)
    /\ call.mapping.divide = FloatV(0)

\* C17: division by zero never raises and never gives an infinity or a NaN:
\* divide with a second source equal to 0, and linear_transform with a
\* divide parameter of 0, resolve to the default for every numeric dividend
C17_DivisionByZeroYieldsDefault ==
    IsResolved /\ (DividesByZero \/ LinearDividesByZero) =>
        call.exc = "" /\ call.v = call.mapping.default

\* C17, its case: 1 divided by 0 with default 6
C17_Witness ==
    /\ IsResolved
    /\ call.mapping = [InputMapping EXCEPT !.operation = StrV(O_divide),
                                           !.sources = NamesV(<<N_a, N_b>>),
                                           !.default = IntV(6)]
    /\ call.context = (N_a :> IntV(1)) @@ (N_b :> IntV(0))
    /\ call.v = IntV(6)

\* the catalog of operations: the numeric ones, linear_transform, and the
\* string and conditional ones
Catalog ==
    OPERATIONS \cup {O_linear_transform, O_concat, O_split, O_substring, O_conditional,
                     O_format_number}

\* C18: building the registry fails with an unknown-operation error exactly
\* when the operation of a mapping is not in the catalog; every operation of
\* the catalog is accepted and gets a resolver
C18_UnknownExactlyOutsideCatalog ==
    call.op = "built" /\ call.mapping.operation # NoneV =>
        /\ call.exc = "ValueError" <=> call.mapping.operation.s \notin Catalog
        /\ call.exc = "" => N_x \in DOMAIN call.registry

\* C18, the failing input: concat is in the catalog and not in OPERATIONS, so
\* the build raises ValueError("Unknown operation: concat")
C18_Failing ==
    /\ call.op = "built"
    /\ call.mapping = [InputMapping EXCEPT !.operation = StrV(O_concat),
                                           !.sources = NamesV(<<N_a, N_b>>)]
    /\ call.exc = "ValueError"

\* the numbers the context holds under the sources, in thousandths
SourceValues(context, sources) ==
    [i \in DOMAIN sources |-> ToFloat(context[sources[i]]).m]

Abs(n) == IF n < 0 THEN 0 - n ELSE n

\* v is the float nearest to num / den
IsQuotient(v, num, den) == v.t = "float" /\ 2 * Abs(v.n * den - num) <= den

\* what an operation over the numbers `values` of its sources must give
SourcesResult(operation, values, v) ==
    LET n == Len(values)
    IN  CASE operation = O_add      -> v = FloatV(Sum(values))
          [] operation = O_average  -> IsQuotient(v, Sum(values), n)
          [] operation = O_min      ->
                 v.t = "float" /\ (\E i \in 1..n : v.n = values[i])
                 /\ (\A i \in 1..n : v.n <= values[i])
          [] operation = O_max      ->
                 v.t = "float" /\ (\E i \in 1..n : v.n = values[i])
                 /\ (\A i \in 1..n : v.n >= values[i])
          [] operation = O_subtract -> n = 2 => v = FloatV(values[1] - values[2])
          [] operation = O_multiply ->
                 /\ n = 2 => IsQuotient(v, values[1] * values[2], Scale)
                 /\ n = 1 => v = FloatV(values[1])
          [] OTHER -> TRUE

\* what a unary operation over the number m must give
UnaryResult(operation, m, v) ==
    CASE operation = O_celsius_to_fahrenheit ->
             IsQuotient([v EXCEPT !.n = v.n - 32 * Scale], 9 * m, 5)
      [] operation = O_fahrenheit_to_celsius ->
             IsQuotient(v, 5 * (m - 32 * Scale), 9)
      [] operation = O_abs -> v = FloatV(Abs(m))
      [] OTHER -> TRUE

\* C19: when the numeric sources are all present, add is their sum, average
\* their mean, min and max their least and greatest, subtract a - b for two
\* sources, multiply a * b for two sources and the value itself for one; a
\* unary operation over a context_key gives the operation of that value
C19_OperationsCompute ==
    /\ IsResolved /\ call.mapping.operation # NoneV /\ HasSources(call.mapping)
       /\ (\A i \in DOMAIN call.mapping.sources.s :
               IsNumberAt(call.context, call.mapping.sources.s[i])) =>
           /\ call.exc = ""
           /\ SourcesResult(call.mapping.operation.s,
                            SourceValues(call.context, call.mapping.sources.s), call.v)
    /\ IsResolved /\ call.mapping.operation # NoneV /\ ~HasSources(call.mapping)
       /\ call.mapping.context_key = StrV(N_a) /\ IsNumberAt(call.context, N_a) =>
           /\ call.exc = ""
           /\ UnaryResult(call.mapping.operation.s, ToFloat(call.context[N_a]).m, call.v)

\* C19, its case: the average of a = 1, b = 2, c = 3 is 2.0
C19_Witness ==
    /\ IsResolved
    /\ call.mapping = [InputMapping EXCEPT !.operation = StrV(O_average),
                                           !.sources = NamesV(<<N_a, N_b, N_c>>)]
    /\ call.context = (N_a :> IntV(1)) @@ (N_b :> IntV(2)) @@ (N_c :> IntV(3))
    /\ call.v = FloatV(2 * Scale)

\* the value violates a constraint the mapping declares
Violates(mapping, v) ==
    LET IsNumber == v.t \in {"int", "float"}
    IN  /\ v # NoneV
        /\ \/ mapping.type = StrV(S_int) /\ v.t # "int"
           \/ mapping.type = StrV(S_str) /\ v.t # "str"
           \/ mapping.min_value # NoneV /\ IsNumber /\ ToFloat(v).m < mapping.min_value.n
           \/ mapping.max_value # NoneV /\ IsNumber /\ ToFloat(v).m > mapping.max_value.n
           \/ mapping.min_length # NoneV /\ v.t = "str" /\ Len(v.s) < mapping.min_length.n
           \/ mapping.max_length # NoneV /\ v.t = "str" /\ Len(v.s) > mapping.max_length.n
           \/ mapping.allowed_values # NoneV
              /\ \A i \in DOMAIN mapping.allowed_values.s : mapping.allowed_values.s[i] # v

\* C20: with a validation constraint and on_validation_error = raise,
\* resolving a value that violates the constraint propagates a validation
\* error: no violating value is ever returned
C20_ViolationRaises ==
    IsResolved /\ call.mapping.on_validation_error = StrV(S_raise) =>
        ~(call.exc = "" /\ Violates(call.mapping, call.v))

\* C20, the failing input: min_value = 2 with the strategy raise, and the
\* context value 1 is returned
C20_Failing ==
    /\ IsResolved
    /\ call.mapping = [InputMapping EXCEPT !.context_key = StrV(N_a),
                                           !.on_validation_error = StrV(S_raise),
                                           !.min_value = FloatV(2 * Scale)]
    /\ call.context = (N_a :> IntV(1))
    /\ call.exc = ""
    /\ call.v = IntV(1)

(***************************************************************************)
(* Properties of the formatter calls, stated on the record of the call:    *)
(* the formatter (fn), the value, the keyword parameters (kw) and the      *)
(* string returned (v) or the exception raised (exc).                      *)
(***************************************************************************)
IsFormat == call.op = "format"

\* a value that is not a number and does not read as one
Uncoercible(value) ==
    \/ value.t = "obj"
    \/ value.t = "str" /\ (value.s = <<>> \/ \E i \in DOMAIN value.s : ~IsDigit(value.s[i]))

\* C21: the numeric formatters never raise on degenerate values: price,
\* number, datetime and relative_time return "" for null, and price, number
\* and relative_time return str(value) unchanged, without prefix, suffix or
\* symbol, for a value that cannot be coerced to a number
C21_DegenerateValues ==
    IsFormat =>
        /\ call.value = NoneV => call.exc = "" /\ call.v = EmptyStr
        /\ call.fn \in {S_price, S_number, S_relative_time} /\ Uncoercible(call.value) =>
               call.exc = "" /\ call.v = StrV(PyStr(call.value))

\* C21, its case: number with a prefix and a suffix on the text "hi"
C21_Witness ==
    /\ IsFormat
    /\ call.fn = S_number
    /\ call.value = StrV(<<"h", "i">>)
    /\ call.kw = ("prefix" :> StrV(<<">">>)) @@ ("suffix" :> StrV(<<"!">>))
    /\ call.v = StrV(<<"h", "i">>)

\* the buckets of relative_time: the seconds below which each applies, its
\* unit in seconds, its short and its long name
TimeBuckets ==
    <<[below |-> 60, unit |-> 1, short |-> <<"s">>,
       long |-> <<"s", "e", "c", "o", "n", "d", "s">>],
      [below |-> 3600, unit |-> 60, short |-> <<"m">>,
       long |-> <<"m", "i", "n", "u", "t", "e", "s">>],
      [below |-> 86400, unit |-> 3600, short |-> <<"h">>,
       long |-> <<"h", "o", "u", "r", "s">>]>>
DayBucket ==
    [below |-> 0, unit |-> 86400, short |-> <<"d">>, long |-> <<"d", "a", "y", "s">>]

\* the one bucket of s: the first whose limit s is below, else the days
BucketOf(s) ==
    IF \E i \in DOMAIN TimeBuckets : s < TimeBuckets[i].below
    THEN TimeBuckets[Min({i \in DOMAIN TimeBuckets : s < TimeBuckets[i].below})]
    ELSE DayBucket

\* "{count}{short} ago" or "{count} {long} ago"
Ago(count, bucket, kw) ==
    IF DictGet(kw, "format", StrV(S_short)) = StrV(S_short)
    THEN IntToStr(count) \o bucket.short \o S_ago
    ELSE IntToStr(count) \o <<" ">> \o bucket.long \o S_ago

\* C22: for every integer number of seconds s, relative_time renders the one
\* bucket chosen by s (seconds below 60, minutes below 3600, hours below
\* 86400, days otherwise) with the count s div unit, not rounded; with a
\* format other than "short" the unit is the long plural word, never singular
C22_RelativeTimeBuckets ==
    IsFormat /\ call.fn = S_relative_time /\ call.value.t = "int" =>
        /\ call.exc = ""
        /\ call.v = StrV(Ago(call.value.n \div BucketOf(call.value.n).unit,
                             BucketOf(call.value.n), call.kw))

\* C22, its case: 75 seconds in the long format is "1 minutes ago"
C22_Witness ==
    /\ IsFormat
    /\ call.fn = S_relative_time
    /\ call.value = IntV(75)
    /\ call.kw = ("format" :> StrV(S_long))
    /\ call.v = StrV(<<"1", " ", "m", "i", "n", "u", "t", "e", "s", " ", "a", "g", "o">>)

\* digits grouped in threes from the right, the groups separated by sep
RECURSIVE GroupWith(_, _)
GroupWith(digits, sep) ==
    IF Len(digits) <= 3 THEN digits
    ELSE GroupWith(SubSeq(digits, 1, Len(digits) - 3), sep) \o sep
         \o SubSeq(digits, Len(digits) - 2, Len(digits))

\* a fixed-point text with its integer digits grouped by sep
Grouped(text, sep) ==
    LET from == IF text[1] = "-" THEN 2 ELSE 1
        to == IF Contains(text, ".") THEN IndexOf(text, ".") - 1 ELSE Len(text)
    IN  SubSeq(text, 1, from - 1) \o GroupWith(SubSeq(text, from, to), sep)
        \o SubSeq(text, to + 1, Len(text))

\* the price of m thousandths under the parameters kw
PriceText(m, kw) ==
    LET symbol == DictGet(kw, "symbol", EmptyStr).s
        number == Grouped(FormatFixed(m, DictGet(kw, "decimals", IntV(2)).n, FALSE),
                          DictGet(kw, "thousands_sep", EmptyStr).s)
    IN  IF DictGet(kw, "symbol_position", StrV(S_prefix)) = StrV(S_suffix)
        THEN number \o symbol ELSE symbol \o number

\* C23: price renders a numeric value with exactly `decimals` fractional
\* digits (2 by default), its integer digits grouped in threes separated by
\* the configured thousands_sep when one is given, and a non-empty symbol
\* before the number, or after it when symbol_position is "suffix"
C23_PriceRendering ==
    IsFormat /\ call.fn = S_price /\ call.value.t \in {"int", "float"} =>
        call.exc = "" /\ call.v = StrV(PriceText(ToFloat(call.value).m, call.kw))

\* C23, the failing input: with thousands_sep "." the groups are separated
\* by a comma all the same
C23_Failing ==
    /\ IsFormat
    /\ call.fn = S_price
    /\ call.value = FloatV(1234 * Scale + 500)
    /\ call.kw = ("symbol" :> StrV(<<"$">>)) @@ ("decimals" :> IntV(2))
                 @@ ("thousands_sep" :> StrV(<<".">>))
    /\ call.v = StrV(<<"$", "1", ",", "2", "3", "4", ".", "5", "0">>)

(***************************************************************************)
(* Properties of the effects of a render and of the placement of slots.    *)
(***************************************************************************)

\* the objects a render wrote to, over all the slots it processed
Written(log) == UNION {{log[i].writes[j].obj : j \in DOMAIN log[i].writes} : i \in DOMAIN log}

\* C24: a render call is read-only on its inputs: every mutating call of
\* build_line_str and build_dict_str (the pop of a preset's type, the references
\* added for a template) acts on a dictionary the call created itself, never on
\* the context, the layout's slots and their formatter_params, the registry or
\* the configuration of the loader, whatever the slot uses
C24_RenderIsReadOnly ==
    IsRender => Written(call.log) \cap CallerOwned = {}

\* a template slot with formatter_params of its own was rendered: the keyword
\* arguments hold the three references, the slot's dictionary does not
C24_Witness ==
    /\ IsRender /\ call.exc = ""
    /\ \E i \in DOMAIN call.log :
          LET e == call.log[i]
          IN  /\ e.formatted /\ e.type = StrV(S_template)
              /\ e.params = TemplateParams /\ "_context" \in DOMAIN e.kw
              /\ call.layout[e.slot].formatter_params = TemplateParams

\* the configured index of the slot an event of the log belongs to
SlotIndex(e) == call.layout[e.slot].index.n

\* C25: in a lines layout a slot is placed only at position index with
\* 0 <= index < length of the array; a slot with an index outside of that range
\* is dropped silently: placement does not raise, and the entry written is the
\* one of the slot's own index, no other
C25_PlacementInRange ==
    call.op = "build_line_str" =>
        /\ call.exc # "IndexError"
        /\ \A i \in DOMAIN call.log :
              LET e == call.log[i]
              IN  /\ e.placed <=> (0 <= SlotIndex(e) /\ SlotIndex(e) < Len(call.out))
                  /\ e.placed => e.at = SlotIndex(e)

\* a slot with a negative index was written to the entry of another index, or
\* its placement raised IndexError
C25_Failing ==
    /\ call.op = "build_line_str"
    /\ \/ /\ call.exc = ""
          /\ \E i \in DOMAIN call.log :
                /\ call.log[i].placed /\ SlotIndex(call.log[i]) < 0
                /\ call.log[i].at # SlotIndex(call.log[i])
                /\ call.out[call.log[i].at + 1] = PyStr(call.log[i].value)
       \/ /\ call.exc = "IndexError"
          /\ call.layout[call.failed].index.n < 0

\* the string a rendered slot produced, from what its event recorded
Rendering(e) ==
    Stringify(IF e.formatted THEN CallFormatter(e.fn, e.value, e.kw).v ELSE e.value)

\* a slot without input and without a presenter that supplies one
Skipped(slot) ==
    /\ slot.input = NoneV
    /\ ~(call.before.has_loader /\ Truthy(slot.presenter)
         /\ slot.presenter.s \in DOMAIN Presenters)

\* C29: slots are processed in configuration order and the last writer wins:
\* the output at an index (or key) that several rendered slots share is the
\* rendering of the last of them in configuration order, and a skipped slot
\* (no input) takes no part: it clears nothing an earlier slot placed
C29_LastWriterWins ==
    (IsRender /\ call.exc = "") =>
        /\ \A i, j \in DOMAIN call.log : i < j => call.log[i].slot < call.log[j].slot
        /\ \A k \in DOMAIN call.layout :
              Skipped(call.layout[k]) => \A i \in DOMAIN call.log : call.log[i].slot # k
        /\ \A i \in DOMAIN call.log :
              (call.log[i].placed
               /\ \A j \in DOMAIN call.log :
                     (j > i /\ call.log[j].placed) => Target(j) # Target(i))
              => Shown(i) = Rendering(call.log[i])

\* two slots with different renderings were placed at the same index (or key)
\* and a skipped slot of that index followed them: the second rendering shows
C29_Witness ==
    /\ IsRender /\ call.exc = ""
    /\ Len(call.layout) = MaxSlots + 1
    /\ Len(call.log) = 2
    /\ call.log[1].placed /\ call.log[2].placed
    /\ Target(1) = Target(2)
    /\ Rendering(call.log[1]) # Rendering(call.log[2])
    /\ Shown(2) = Rendering(call.log[2])
    /\ Skipped(call.layout[MaxSlots + 1])
    /\ Place(call.layout[MaxSlots + 1]) = Place(call.layout[1])

(***************************************************************************)
(* Properties of the loop of MethodCallParser.parse.                       *)
(***************************************************************************)
\* the remaining text matches neither the method nor the attribute pattern
Unparsable(remaining) == ~MethodMatch(remaining).ok /\ ~AttrMatch(remaining).ok

\* C30: MethodCallParser.parse terminates on every input: an iteration of its
\* loop either strictly shortens the remaining text or leaves the loop, so a
\* parse that was entered ends; at a later segment that matches neither pattern
\* the loop stops and the operations parsed so far are the result, the tail
\* being discarded; the empty string yields no operations
C30_ParseTerminates ==
    /\ [][(call.op = "parsing" /\ call'.op = "parsing")
            => Len(call'.remaining) < Len(call.remaining)]_vars
    /\ [][(call.op = "parsing" /\ ~call.first /\ call.remaining # <<>>
           /\ Unparsable(call.remaining))
            => (call'.op = "parsed" /\ call'.exc = ""
                /\ call'.operations = call.operations)]_vars
    /\ [](call.op = "parsed" /\ call.key = <<>> => call.operations = <<>>)
    /\ (call.op = "parsing") ~> (call.op = "parsed")

\* a parse ended at a tail that matches neither pattern, with the two
\* operations parsed before it
C30_Witness ==
    /\ call.op = "parsed" /\ call.exc = ""
    /\ call.remaining # <<>> /\ Unparsable(call.remaining)
    /\ Len(call.operations) = 2

(***************************************************************************)
(* Properties of the process-wide engine.                                  *)
(***************************************************************************)
\* C27: the process-wide engine is constructed at most once: a call before any
\* registry was supplied raises ValueError and leaves the global unset, the
\* first call with a registry creates the engine, and every later call returns
\* that same engine with its original registry, also when a different registry
\* is passed
C27_ConstructedOnce ==
    [][call'.op = "get_layout_engine" =>
         /\ engine'.constructed <= 1
         /\ (engine.global = NoneV /\ call'.field_registry = NoneV) =>
               (call'.exc = "ValueError" /\ engine'.global = NoneV)
         /\ (engine.global = NoneV /\ call'.field_registry # NoneV) =>
               /\ call'.exc = "" /\ call'.v = engine'.global
               /\ engine'.global # NoneV
               /\ engine'.global.field_registry = call'.field_registry
         /\ engine.global # NoneV =>
               (call'.exc = "" /\ call'.v = engine.global
                /\ engine'.global = engine.global)]_vars

\* a call that passed another registry than the one the engine was created
\* with got the engine of the first registry
C27_Witness ==
    /\ call.op = "get_layout_engine" /\ call.exc = ""
    /\ call.before # NoneV
    /\ call.field_registry # NoneV
    /\ call.field_registry # call.before.field_registry
    /\ call.v = call.before /\ engine.global = call.before
    /\ engine.calls >= 3

(***************************************************************************)
(* Properties of the loader's cache.                                       *)
(***************************************************************************)
IsAccessor(c) ==
    c.op \in {"get_layout", "get_formatter_preset", "get_presenter_config",
              "get_input_mappings", "get_context_provider"}

\* an accessor reads the files only when it finds the cache unset, and with a
\* cache it answers from it and leaves it alone
AnswersFromCache ==
    IsAccessor(call') =>
        /\ call'.parsed => engine.cache = NoneV
        /\ engine.cache # NoneV =>
              /\ ~call'.parsed /\ engine'.cache = engine.cache
              /\ (call'.exc = "" /\ call'.v # NoneV) =>
                    call'.v.version = engine.cache.version

\* the cache changes only to the configuration of valid files that were read
ChangesByLoad ==
    (IsAccessor(call') \/ call'.op = "load") =>
        (engine'.cache # engine.cache =>
            /\ call'.parsed /\ call'.files.status = "valid"
            /\ engine'.cache = LayoutsConfig(call'.files.version))

\* C28 as stated: the cache changes only through a successful load, accessors
\* read the files only when the cache is unset and answer from the cache
\* afterwards, and every load or accessor call that raises leaves the cache
\* exactly as it was
C28_RaisingLeavesCache ==
    [][/\ AnswersFromCache
       /\ ChangesByLoad
       /\ ((IsAccessor(call') \/ call'.op = "load") /\ call'.exc # "")
             => engine'.cache = engine.cache]_vars

\* get_layout of an unknown name on a loader without cache: the files are
\* read and cached, then ValueError is raised
FirstGetLayoutUnknown ==
    /\ call'.op = "get_layout" /\ call'.exc = "ValueError"
    /\ engine.cache = NoneV /\ call'.parsed
    /\ engine'.cache = LayoutsConfig(call'.files.version)

\* C28, amended: as above, but a call that raises leaves the cache as it was
\* unless it is the get_layout of an unknown name that first loaded the
\* configuration: its own load succeeded and stays cached
C28_CacheChangesOnlyByLoad ==
    [][/\ AnswersFromCache
       /\ ChangesByLoad
       /\ ((IsAccessor(call') \/ call'.op = "load") /\ call'.exc # "")
             => (engine'.cache = engine.cache \/ FirstGetLayoutUnknown)]_vars

\* an accessor answered from the cached configuration although the files
\* held another content or were gone
C28_Witness ==
    /\ IsAccessor(call) /\ call.exc = "" /\ call.v # NoneV
    /\ call.before # NoneV /\ engine.cache = call.before
    /\ ~call.parsed
    /\ call.files # [status |-> "valid", version |-> call.before.version]
    /\ call.v.version = call.before.version

(***************************************************************************)
(* Properties of the render-inputs command.                                *)
(***************************************************************************)
IsRenderInputs == call.op \in {"render_inputs", "rendered"}

\* the configured inputs an operation input names as its sources
SourceInputs(name) ==
    LET mapping == call.input_mappings[name]
    IN  IF mapping.operation = NoneV THEN {}
        ELSE {mapping.sources.s[i] : i \in DOMAIN mapping.sources.s}
             \cap (DOMAIN call.input_mappings \ {name})

\* the position of an input in the order of resolution
Position(name) == CHOOSE i \in DOMAIN call.order : call.order[i] = name

\* C26: the inputs are resolved one after another against an accumulating
\* evaluation context, a copy of the caller's context that holds every value
\* resolved so far under its input's name, in an order in which every
\* configured input named in the sources of an operation input was resolved
\* before that operation input, which is thus computed from the resolved
\* values of its sources
C26_SourcesResolvedFirst ==
    IsRenderInputs =>
        /\ call.evaluation_context = call.results @@ call.context
        /\ \A i \in DOMAIN call.order :
              \A source \in SourceInputs(call.order[i]) :
                  /\ \E j \in 1..(i - 1) : call.order[j] = source
                  /\ call.results[call.order[i]] =
                        OperationCall(O_add,
                            [k \in {1, 2} |->
                               call.results[call.input_mappings[call.order[i]]
                                                .sources.s[k]]]).v

\* the command ended with all inputs shown: a, the sum of the plain inputs b
\* and c, was resolved first and is its default, not the sum of their values
C26_Failing ==
    /\ call.op = "rendered" /\ call.exc = ""
    /\ call.order = <<N_a, N_b, N_c>>
    /\ call.input_mappings[N_a].sources = NamesV(<<N_b, N_c>>)
    /\ call.input_mappings[N_b].operation = NoneV
    /\ call.input_mappings[N_c].operation = NoneV
    /\ call.results[N_b] = IntV(2) /\ call.results[N_c] = IntV(5)
    /\ call.results[N_a] = RenderDefault

====
